---- MODULE Spec2Model ----
(***************************************************************************)
(* ghost-cursor: the GhostCursor class of src/src/spoof.ts (lines 855 to   *)
(* 1444) as a state machine.  One cursor object (location, moving), the    *)
(* directed calls move / moveTo / click issued by client code, the         *)
(* fire-and-forget roaming loop randomMove, and the browser driver that    *)
(* answers the awaited calls.  Every action is the synchronous code that   *)
(* runs between two awaits of one async function.                          *)
(***************************************************************************)
EXTENDS Integers, Sequences, FiniteSets, TLC

VARIABLES
  location,    \* GhostCursor.location
  moving,      \* GhostCursor.moving
  connected,   \* page.browser().isConnected()
  call,        \* per caller: the directed call it is executing (its locals)
  roam,        \* the roaming loop randomMove (its locals; loops counts the
               \* calls of randomMove that have not ended)
  queue,       \* driver: processes with an input event in flight, in order
  roamWrites,  \* history: writes of location by roaming since moving was set
  last         \* history: the step just taken

vars == <<location, moving, connected, call, roam, queue, roamWrites, last>>

-----------------------------------------------------------------------------
(* Bounds of the model *)

\* largest maxTries option a call passes
MaxTriesBound == 1
\* largest number of interior points of a synthesized trajectory
MaxMid == 1
\* cap of the roamWrites counter
MaxRoamWrites == 2

(* Program constants *)
DefaultMaxTries == 10
DefaultOvershootThreshold == 500
OVERSHOOT_SPREAD == 10
OVERSHOOT_RADIUS == 120

-----------------------------------------------------------------------------
(* Data *)

Callers == {"c1", "c2"}
Roam == "roam"
Procs == Callers \cup {Roam}

Pt(x, y) == [x |-> x, y |-> y]
origin == Pt(0, 0)

\* the screen positions of the model: the start position, and the corner, the
\* left edge, the interior and the opposite corner of the target rectangle
Points == {origin, Pt(300, 400), Pt(300, 401), Pt(301, 401), Pt(302, 402)}

Rect(x, y, w, h) == [x |-> x, y |-> y, width |-> w, height |-> h]
TargetBox == Rect(300, 400, 2, 2)
\* the target collapsed to an empty rectangle at the origin
MovedBox == Rect(0, 0, 0, 0)
Boxes == {TargetBox, MovedBox}

\* the number NaN of the program's arithmetic, kept apart from every number
\* the model computes with; undefined, the value of an option that is not given
NaN == 0 - 1000000000
undefined == NaN - 1
Defined(p) == p.x # NaN /\ p.y # NaN
NaNPt == Pt(NaN, NaN)

Max(a, b) == IF a >= b THEN a ELSE b
Min(a, b) == IF a <= b THEN a ELSE b
Abs(a) == IF a < 0 THEN -a ELSE a
Sq(a) == a * a

-----------------------------------------------------------------------------
(* math.ts *)

add(a, b) == IF Defined(a) /\ Defined(b) THEN Pt(a.x + b.x, a.y + b.y) ELSE NaNPt
sub(a, b) == IF Defined(a) /\ Defined(b) THEN Pt(a.x - b.x, a.y - b.y) ELSE NaNPt
direction(a, b) == sub(b, a)
\* mult(a, b) for the number b = q[1] / q[2], rounded down to whole pixels
mult(a, q) ==
  IF Defined(a) THEN Pt((a.x * q[1]) \div q[2], (a.y * q[1]) \div q[2]) ELSE NaNPt
perpendicular(a) == IF Defined(a) THEN Pt(a.y, 0 - a.x) ELSE NaNPt

\* Math.sqrt, rounded down to a whole number (of a number below 2^31, so that
\* the root is at most 46340)
RECURSIVE SqrtBetween(_, _, _)
SqrtBetween(n, lo, hi) ==
  IF hi - lo <= 1 THEN lo
  ELSE LET mid == (lo + hi) \div 2
       IN IF mid * mid <= n THEN SqrtBetween(n, mid, hi) ELSE SqrtBetween(n, lo, mid)
Sqrt(n) == SqrtBetween(n, 0, Min(n, 46340) + 1)
magnitude(a) == Sqrt(Sq(a.x) + Sq(a.y))

\* setMagnitude(a, amount) = mult(unit(a), amount) with unit(a) = div(a,
\* magnitude(a)): for the zero vector unit divides 0 by 0, which is NaN
setMagnitude(a, amount) ==
  IF ~Defined(a) \/ magnitude(a) = 0 THEN NaNPt
  ELSE mult(a, <<amount, magnitude(a)>>)

\* the values of Math.random() the model draws: 0, 1/4 and 1/2
Randoms == {<<0, 4>>, <<1, 4>>, <<1, 2>>}

randomVectorOnLine(a, b) == {add(a, mult(direction(a, b), m)) : m \in Randoms}

\* randomNormalLine(a, b, range): the pairs [randMid, normalV]
randomNormalLine(a, b, range) ==
  {<<randMid, setMagnitude(perpendicular(direction(a, randMid)), range)>> :
     randMid \in randomVectorOnLine(a, b)}

\* [p, q].sort((a, b) => a.x - b.x): the two are exchanged when the comparison
\* is positive; a NaN comparison counts as 0
SortByX(p, q) ==
  IF Defined(p) /\ Defined(q) /\ p.x - q.x > 0 THEN <<q, p>> ELSE <<p, q>>

generateBezierAnchors(a, b, spread) ==
  LET calc(side) ==
        UNION {randomVectorOnLine(nl[1], add(nl[1], mult(nl[2], <<side, 1>>))) :
                 nl \in randomNormalLine(a, b, spread)}
  IN {SortByX(c1, c2) : c1 \in calc(1), c2 \in calc(1)}
       \cup {SortByX(c1, c2) : c1 \in calc(-1), c2 \in calc(-1)}

\* magnitude(a) > t, with magnitude(a) = sqrt(a.x^2 + a.y^2): the comparison is
\* taken on the squares, which is exact for integers
MagnitudeExceeds(a, t) == t < 0 \/ Sq(a.x) + Sq(a.y) > Sq(t)
MagnitudeBelow(a, t) == t > 0 /\ Sq(a.x) + Sq(a.y) < Sq(t)

\* overshoot(coordinate, radius): coordinate + rad * (cos a, sin a) with
\* rad = radius * sqrt(random) and random in [0, 1): every point of the open
\* disc of that radius around coordinate (the centre for random = 0)
overshoot(coordinate, radius) ==
  {p \in Points : p = coordinate \/ MagnitudeBelow(direction(coordinate, p), radius)}

-----------------------------------------------------------------------------
(* spoof.ts: pure functions *)

\* lo + Math.random() * span with Math.random() in [0, 1)
RandomIn(lo, span) ==
  {v \in {p.x : p \in Points} \cup {p.y : p \in Points} :
     IF span > 0 THEN lo <= v /\ v < lo + span
     ELSE IF span < 0 THEN lo + span < v /\ v <= lo
     ELSE v = lo}

\* lo + Math.random() * span for lo and span given in 1 / units of a pixel
RandomInUnits(units, lo, span) ==
  {v \in {p.x : p \in Points} \cup {p.y : p \in Points} :
     IF span > 0 THEN lo <= units * v /\ units * v < lo + span
     ELSE IF span < 0 THEN lo + span < units * v /\ units * v <= lo
     ELSE units * v = lo}

\* getRandomBoxPoint(box, options): the padding applies for a paddingPercentage
\* above 0 and up to 100; paddingWidth and paddingHeight are held times 100
getRandomBoxPoint_PaddedOnOneSide(b, paddingPercentage) ==
  LET padded == paddingPercentage # undefined /\ paddingPercentage > 0
                  /\ paddingPercentage <= 100
      paddingWidth == IF padded THEN b.width * paddingPercentage ELSE 0
      paddingHeight == IF padded THEN b.height * paddingPercentage ELSE 0
  IN {p \in Points :
        /\ p.x \in RandomInUnits(100, 100 * b.x + paddingWidth,
                                  100 * b.width - paddingWidth)
        /\ p.y \in RandomInUnits(100, 100 * b.y + paddingHeight,
                                  100 * b.height - paddingHeight)}
getRandomBoxPoint(b, paddingPercentage) ==
  LET padded == paddingPercentage # undefined /\ paddingPercentage > 0
                  /\ paddingPercentage <= 100
      paddingWidth == IF padded THEN b.width * paddingPercentage ELSE 0
      paddingHeight == IF padded THEN b.height * paddingPercentage ELSE 0
  IN {p \in Points :
        /\ p.x \in RandomInUnits(200, 200 * b.x + paddingWidth,
                                  200 * b.width - 2 * paddingWidth)
        /\ p.y \in RandomInUnits(200, 200 * b.y + paddingHeight,
                                  200 * b.height - 2 * paddingHeight)}

\* getRandomPagePoint: getRandomBoxPoint of the window's rectangle at the origin
Window == Rect(0, 0, 301, 401)
getRandomPagePoint == getRandomBoxPoint(Window, undefined)

\* Math.max(0, v): NaN for NaN
MaxOfZero(v) == IF v = NaN THEN NaN ELSE Max(0, v)
clampPositive_AsGiven(v) == Pt(v.x, v.y)
clampPositive(v) == Pt(MaxOfZero(v.x), MaxOfZero(v.y))

\* interior samples of curve.getLUT(steps): steps - 1 points between the ends,
\* here up to MaxMid of them and each one of two positions
MidPoints == {Pt(301, 401), Pt(302, 402)}
MidSeqs == UNION {[1..k -> MidPoints] : k \in 0..MaxMid}

\* path(start, end, options): the look-up table of the curve from start to end,
\* its first sample the start and its last the end, every sample clamped
path_EndsAtMid(start, end) ==
  {<<clampPositive(start)>> \o <<clampPositive(end)>> \o m : m \in MidSeqs \ {<<>>}}
path(start, end) ==
  {<<clampPositive(start)>> \o m \o <<clampPositive(end)>> : m \in MidSeqs}

shouldOvershoot_AtThreshold(a, b, threshold) ==
  MagnitudeExceeds(direction(a, b), threshold - 1)
shouldOvershoot(a, b, threshold) ==
  MagnitudeExceeds(direction(a, b), threshold)

\* the box with all four of its edges
intersectsElement_Closed(vec, b) ==
  /\ vec.x >= b.x
  /\ vec.x <= b.x + b.width
  /\ vec.y >= b.y
  /\ vec.y <= b.y + b.height
intersectsElement_LeftEdge(vec, b) ==
  /\ vec.x >= b.x
  /\ vec.x <= b.x + b.width
  /\ vec.y > b.y
  /\ vec.y <= b.y + b.height
intersectsElement(vec, b) ==
  /\ vec.x > b.x
  /\ vec.x <= b.x + b.width
  /\ vec.y > b.y
  /\ vec.y <= b.y + b.height

\* options.destination of move when it is not given
NoDestination == Pt(undefined, undefined)

\* go: the destination of an attempt is the box's corner moved by
\* options.destination when that is given, else a random point of the box
destinationOf(b, destination) ==
  IF destination # NoDestination THEN {add(b, destination)}
  ELSE getRandomBoxPoint(b, undefined)

\* go: if (iteration > optionsResolved.maxTries) throw
TriesExceeded(it, mt) == it > mt

\* moveMouse: if (abortOnMove && this.moving) return
AbortOnMove_Never(abortOnMove, flag) == FALSE
AbortOnMove(abortOnMove, flag) == abortOnMove /\ flag

\* moveMouse with the assignment to location before the await of the dispatch
locationAfter_BeforeAnswer(ok, v, loc) == v

\* moveMouse: this.location = v stands after the await of the dispatch of v, so
\* a rejected dispatch leaves the location loc
locationAfter(ok, v, loc) == IF ok THEN v ELSE loc

\* moveMouse, catch: if (!this.page.browser().isConnected()) return
ExitOnError_Always(isConnected) == TRUE
ExitOnError_Never(isConnected) == FALSE
ExitOnError(isConnected) == ~isConnected

\* randomMove: the try block holds the await of getRandomPagePoint, the await of
\* moveMouse and the await of delay, so a rejection at any of them is caught
randomMoveCatches_NotThePoint(stage) == stage \in {"moveMouse", "delay"}
randomMoveCatches(stage) == stage \in {"getRandomPagePoint", "moveMouse", "delay"}

\* click with its move inside the try block too
clickCatches_AlsoMove(stage) == stage \in {"move", "mouseDown", "mouseUp"}

\* click without a try block
clickCatches_Nothing(stage) == FALSE

\* click: the try block holds the awaits of mouseDown and mouseUp and the two
\* delays between; the await of move stands before it
clickCatches(stage) == stage \in {"mouseDown", "mouseUp"}

\* randomMove after its delay: it calls itself whatever the flag is, and the new
\* call asks for a random point if (!this.moving) and only delays again if not
randomMoveAgain_StopWhenOff(flag) == IF ~flag THEN "point" ELSE "off"
randomMoveAgain(flag) == IF ~flag THEN "point" ELSE "delay"

\* randomMove called by toggleRandomMove(true) as well
callsRandomMove_AlsoToggle(method, on) ==
  on /\ method \in {"constructor", "randomMove", "toggleRandomMove"}

\* this.randomMove() is called in two places: in the constructor under
\* if (performRandomMoves), and by randomMove itself after its delay
callsRandomMove(method, on) == on /\ method \in {"constructor", "randomMove"}

\* toggleRandomMove(random): this.moving = !random
toggleRandomMove_On(random) == FALSE
toggleRandomMove(random) == ~random



-----------------------------------------------------------------------------
(* Scrolling: pure functions *)

EXP_SCALE_START == 90

\* math.ts: clamp(target, min, max)
clamp(target, min, max) == Min(max, Max(min, target))

\* math.ts: scale(value, range1, range2), the linear map of range1 onto range2;
\* the inputs of the model are chosen so that the quotient is whole
scale(value, range1, range2) ==
  ((value - range1[1]) * (range2[2] - range2[1])) \div (range1[2] - range1[1])
    + range2[1]

\* a Partial<Vector> is a function on a subset of {"x", "y"}; delta.x ?? 0
Partial(keys, x, y) == [k \in keys |-> IF k = "x" THEN x ELSE y]
OrZero(delta, k) == IF k \in DOMAIN delta THEN delta[k] ELSE 0

\* scroll with the step equal to scrollSpeed at every speed
scrollPlan_StepIsSpeed(delta, scrollSpeedOption) ==
  LET scrollSpeed == clamp(scrollSpeedOption, 1, 100)
      deltaX == Abs(delta.x)
      deltaY == Abs(delta.y)
      largerDistanceDir == IF deltaX > deltaY THEN "x" ELSE "y"
      largerDistance == IF largerDistanceDir = "x" THEN deltaX ELSE deltaY
      shorterDistance == IF largerDistanceDir = "x" THEN deltaY ELSE deltaX
      step == scrollSpeed
      numSteps == largerDistance \div step
  IN [xDirection |-> IF delta.x < 0 THEN -1 ELSE 1,
      yDirection |-> IF delta.y < 0 THEN -1 ELSE 1,
      largerDistanceDir |-> largerDistanceDir,
      largerDistanceScrollStep |-> step,
      numSteps |-> numSteps,
      largerDistanceRemainder |-> largerDistance % step,
      shorterDistanceScrollStep |->
        IF numSteps = 0 THEN 0 ELSE shorterDistance \div numSteps,
      shorterDistanceRemainder |->
        IF numSteps = 0 THEN 0 ELSE shorterDistance % numSteps]

\* scroll: what the loop of wheel events is computed from.  0 / 0 is NaN, and
\* i < NaN is false: no step.
scrollPlan(delta, scrollSpeedOption) ==
  LET scrollSpeed == clamp(scrollSpeedOption, 1, 100)
      deltaX == Abs(delta.x)
      deltaY == Abs(delta.y)
      largerDistanceDir == IF deltaX > deltaY THEN "x" ELSE "y"
      largerDistance == IF largerDistanceDir = "x" THEN deltaX ELSE deltaY
      shorterDistance == IF largerDistanceDir = "x" THEN deltaY ELSE deltaX
      step == IF scrollSpeed < EXP_SCALE_START THEN scrollSpeed
              ELSE scale(scrollSpeed, <<EXP_SCALE_START, 100>>,
                         <<EXP_SCALE_START, largerDistance>>)
      numSteps == IF step = 0 THEN 0 ELSE largerDistance \div step
  IN [xDirection |-> IF delta.x < 0 THEN -1 ELSE 1,
      yDirection |-> IF delta.y < 0 THEN -1 ELSE 1,
      largerDistanceDir |-> largerDistanceDir,
      largerDistanceScrollStep |-> step,
      numSteps |-> numSteps,
      largerDistanceRemainder |-> IF step = 0 THEN 0 ELSE largerDistance % step,
      shorterDistanceScrollStep |->
        IF numSteps = 0 THEN 0 ELSE shorterDistance \div numSteps,
      shorterDistanceRemainder |->
        IF numSteps = 0 THEN 0 ELSE shorterDistance % numSteps]

\* scroll: deltaX and deltaY of the wheel event of iteration i
wheelDelta(p, i) ==
  LET final == i = p.numSteps - 1
      longerDistanceDelta ==
        p.largerDistanceScrollStep + (IF final THEN p.largerDistanceRemainder ELSE 0)
      shorterDistanceDelta ==
        p.shorterDistanceScrollStep + (IF final THEN p.shorterDistanceRemainder ELSE 0)
  IN IF p.largerDistanceDir = "x"
     THEN Pt(longerDistanceDelta * p.xDirection, shorterDistanceDelta * p.yDirection)
     ELSE Pt(shorterDistanceDelta * p.xDirection, longerDistanceDelta * p.yDirection)

\* what page.evaluate reads of the page; the scroll position is read with it
Document ==
  [viewportWidth |-> 400, viewportHeight |-> 300, docWidth |-> 800, docHeight |-> 900]
ScrollPositions == {Pt(0, 0), Pt(400, 600)}

\* scrollTo: the switch on destination.  A destination is a keyword or a
\* Partial<Vector>.
Keyword(word) == [word |-> word, point |-> Partial({}, 0, 0)]
Place(point) == [word |-> "point", point |-> point]
scrollToTarget(destination, doc) ==
  IF destination.word = "top" THEN Partial({"y"}, 0, 0)
  ELSE IF destination.word = "bottom" THEN Partial({"y"}, 0, doc.docHeight)
  ELSE IF destination.word = "left" THEN Partial({"x"}, 0, 0)
  ELSE IF destination.word = "right" THEN Partial({"x"}, doc.docWidth, 0)
  ELSE destination.point

\* scrollTo: the delta handed to scroll
scrollToDelta_KeepsOffset(to, scrollPosition) ==
  Pt(IF "x" \in DOMAIN to THEN to["x"] - scrollPosition.x ELSE -scrollPosition.x,
     IF "y" \in DOMAIN to THEN to["y"] - scrollPosition.y ELSE -scrollPosition.y)
scrollToDelta(to, scrollPosition) ==
  Pt(IF "x" \in DOMAIN to THEN to["x"] - scrollPosition.x ELSE 0,
     IF "y" \in DOMAIN to THEN to["y"] - scrollPosition.y ELSE 0)

\* scrollIntoView: the element's box with the margin added, taken to document
\* coordinates, restricted to the document and taken back to the viewport
targetBox(elemBoundingBox, inViewportMargin, scrollPosition, doc) ==
  LET top == elemBoundingBox.y - inViewportMargin + scrollPosition.y
      left == elemBoundingBox.x - inViewportMargin + scrollPosition.x
      bottom == elemBoundingBox.y + elemBoundingBox.height + inViewportMargin
                  + scrollPosition.y
      right == elemBoundingBox.x + elemBoundingBox.width + inViewportMargin
                 + scrollPosition.x
  IN [top |-> Max(top, 0) - scrollPosition.y,
      left |-> Max(left, 0) - scrollPosition.x,
      bottom |-> Min(bottom, doc.docHeight) - scrollPosition.y,
      right |-> Min(right, doc.docWidth) - scrollPosition.x]

isInViewport_Inside(t, doc) ==
  t.top > 0 /\ t.left > 0 /\ t.bottom < doc.viewportHeight /\ t.right < doc.viewportWidth
isInViewport(t, doc) ==
  t.top >= 0 /\ t.left >= 0 /\ t.bottom <= doc.viewportHeight /\ t.right <= doc.viewportWidth

\* the delta that takes the top left corner of the box to that of the viewport
manualDelta_ToTopLeft(t, doc) == Pt(t.left, t.top)

\* scrollIntoView, manuallyScroll: the delta handed to scroll
manualDelta(t, doc) ==
  Pt(IF t.left < 0 THEN t.left
     ELSE IF t.right > doc.viewportWidth THEN t.right - doc.viewportWidth ELSE 0,
     IF t.top < 0 THEN t.top
     ELSE IF t.bottom > doc.viewportHeight THEN t.bottom - doc.viewportHeight ELSE 0)

\* the native scroll tried first whatever the margin is
useNative_AnyMargin(scrollSpeedOption, inViewportMargin) ==
  clamp(scrollSpeedOption, 1, 100) = 100

\* scrollIntoView: DOM.scrollIntoViewIfNeeded is tried first
useNative(scrollSpeedOption, inViewportMargin) ==
  clamp(scrollSpeedOption, 1, 100) = 100 /\ inViewportMargin <= 0

\* scrollIntoView: a failed strategy whose error is caught and followed by the
\* next strategy (the inner try holds the native scroll, the outer try holds it
\* and manuallyScroll; the page-level scrollIntoView is awaited in the catch)
scrollCatches_OnlyNative(strategy) == strategy = "native"
scrollCatches(strategy) == strategy \in {"native", "wheel"}

-----------------------------------------------------------------------------
(* path: the curve, its samples and their timestamps *)

MIN_SPREAD == 2
MAX_SPREAD == 200

\* bezierCurve(start, finish, spreadOverride): the control points of the curves
\* it can return
bezierCurve(start, finish, spreadOverride) ==
  LET length == magnitude(direction(start, finish))
      spread == IF spreadOverride # undefined THEN spreadOverride
                ELSE clamp(length, MIN_SPREAD, MAX_SPREAD)
  IN {<<start, anchors[1], anchors[2], finish>> :
        anchors \in generateBezierAnchors(start, finish, spread)}

\* curve.getLUT(steps): the samples at t = i / steps for i = 0 .. steps; t = 0
\* and t = 1 give the first and the last control point themselves, every other
\* t the cubic's value, rounded down to whole pixels
getLUT(curve, steps) ==
  LET B(i, c0, c1, c2, c3) ==
        ((steps - i) * (steps - i) * (steps - i) * c0
           + 3 * (steps - i) * (steps - i) * i * c1
           + 3 * (steps - i) * i * i * c2
           + i * i * i * c3) \div (steps * steps * steps)
      compute(i) ==
        IF i = 0 THEN curve[1]
        ELSE IF i = steps THEN curve[4]
        ELSE IF \A k \in 1..4 : Defined(curve[k])
        THEN Pt(B(i, curve[1].x, curve[2].x, curve[3].x, curve[4].x),
                B(i, curve[1].y, curve[2].y, curve[3].y, curve[4].y))
        ELSE NaNPt
  IN [k \in 1..(steps + 1) |-> compute(k - 1)]

\* extrapolate(a, b): the point as far beyond b as b is beyond a
extrapolate(a, b) == add(b, sub(b, a))

\* bezierCurveSpeed(t, P0, P1, P2, P3) for t = q[1] / q[2]: the speed times
\* q[2] squared, its square root rounded down
bezierCurveSpeed(q, P0, P1, P2, P3) ==
  LET B(c0, c1, c2, c3) ==
        3 * (q[2] - q[1]) * (q[2] - q[1]) * (c1 - c0)
          + 6 * (q[2] - q[1]) * q[1] * (c2 - c1)
          + 3 * q[1] * q[1] * (c3 - c2)
  IN Sqrt(Sq(B(P0.x, P1.x, P2.x, P3.x)) + Sq(B(P0.y, P1.y, P2.y, P3.y)))

\* Math.round(p / q)
Round(p, q) ==
  IF q > 0 THEN (2 * p + q) \div (2 * q) ELSE (0 - 2 * p - q) \div (0 - 2 * q)

\* timeToMove(P0, P1, P2, P3, samples) of generateTimestamps for the speed
\* speed[1] / speed[2]: the sum over t = i / samples, i = 0 .. samples - 1, of
\* (v1 + v2) * dt / 2, divided by the speed and rounded
RECURSIVE SumSpeeds(_, _, _, _, _, _)
SumSpeeds(i, samples, P0, P1, P2, P3) ==
  IF i = samples THEN 0
  ELSE bezierCurveSpeed(<<i, samples * samples>>, P0, P1, P2, P3)
         + samples * samples * bezierCurveSpeed(<<i, samples>>, P0, P1, P2, P3)
         + SumSpeeds(i + 1, samples, P0, P1, P2, P3)
timeToMove(P0, P1, P2, P3, samples, speed) ==
  IF \E P \in {P0, P1, P2, P3} : ~Defined(P) THEN NaN
  ELSE Round(SumSpeeds(0, samples, P0, P1, P2, P3) * speed[2],
             2 * samples * samples * samples * samples * samples * speed[1])

\* Date.now() at the call
DateNow == 1000

\* generateTimestamps(vectors, options): speed is options.moveSpeed, or
\* Math.random() * 0.5 + 0.5 for the random number random[1] / random[2]
RECURSIVE TimedUpTo(_, _, _)
TimedUpTo(vectors, speed, i) ==
  IF i = 1 THEN <<[x |-> vectors[1].x, y |-> vectors[1].y, timestamp |-> DateNow]>>
  ELSE LET timedVectors == TimedUpTo(vectors, speed, i - 1)
           P0 == vectors[i - 1]
           P1 == vectors[i]
           P2 == IF i + 1 <= Len(vectors) THEN vectors[i + 1] ELSE extrapolate(P0, P1)
           P3 == IF i + 2 <= Len(vectors) THEN vectors[i + 2] ELSE extrapolate(P1, P2)
           time == timeToMove(P0, P1, P2, P3, Len(vectors), speed)
           previous == timedVectors[i - 1].timestamp
       IN Append(timedVectors,
                 [x |-> vectors[i].x, y |-> vectors[i].y,
                  timestamp |-> IF time = NaN \/ previous = NaN THEN NaN
                                ELSE previous + time])
generateTimestamps(vectors, moveSpeed, random) ==
  TimedUpTo(vectors,
            IF moveSpeed # undefined THEN <<moveSpeed, 1>>
            ELSE <<random[1] + random[2], 2 * random[2]>>,
            Len(vectors))

\* PathOptions
PathOptions ==
  [spreadOverride : {undefined, 10}, moveSpeed : {undefined, -1, 2},
   useTimestamps : BOOLEAN]

\* path(start, end, options) as a caller of the exported function gets it: the
\* samples of a curve from start to end, clamped, with timestamps on request.
\* Of the samples between the ends the model takes MaxMid.
pathOf(start, end, options) ==
  LET clamped(re) == [k \in DOMAIN re |-> clampPositive(re[k])]
  IN IF options.useTimestamps
     THEN {generateTimestamps(clamped(getLUT(curve, MaxMid + 1)), options.moveSpeed, random) :
             curve \in bezierCurve(start, end, options.spreadOverride),
             random \in Randoms}
     ELSE {clamped(getLUT(curve, MaxMid + 1)) :
             curve \in bezierCurve(start, end, options.spreadOverride)}

-----------------------------------------------------------------------------
(* Mouse buttons: pure functions *)

\* MouseButtonOptions: a button and a clickCount, each of which may be absent
\* ("none", 0)
NoOptions == [button |-> "none", clickCount |-> 0]
MouseButtonOptions == [button : {"none", "left", "right"}, clickCount : {0, 2}]

\* { ...base, ...over }
Spread(base, over) ==
  [button |-> IF over.button # "none" THEN over.button ELSE base.button,
   clickCount |-> IF over.clickCount # 0 THEN over.clickCount ELSE base.clickCount]

\* mouseButtonAction: button and clickCount of the event it dispatches
mouseButtonAction(defaultClick, options) ==
  Spread(Spread([button |-> "left", clickCount |-> 1], defaultClick), options)

\* click: the options it calls mouseDown and mouseUp with: none
clickPasses(options) == NoOptions

-----------------------------------------------------------------------------
(* The state machine *)

\* maxTries options the client passes
MaxTriesInputs == {MaxTriesBound}

\* deltas and speeds of the scrolls made while the cursor moves
WhereScrollDeltas == {Pt(30, -200)}
WhereScrollSpeeds == {50, 100}

\* options.destination of move: on the left edge of the box, on its top edge,
\* inside it, and not given
DestinationOptions == {Pt(0, 1), Pt(1, 0), Pt(1, 1), NoDestination}

\* the selector argument of move and click: a CSS selector, an XPath selector
\* (it starts with // or (//), or an ElementHandle
Selectors == {"css", "xpath", "handle"}

\* getElement when the query matches nothing: page.$ answers null and the null
\* test throws; page.$$ answers [], so handle is undefined and
\* handle.asElement() throws a TypeError before the null test
NoMatch(sel) == IF sel = "xpath" THEN "typeerror" ELSE "notfound"

\* a caller that is executing no directed call.  pc names the await the call is
\* suspended on; entry, tries, trajs, aimDist2, arrived and lost are history:
\* the flag at entry, the attempts started, the trajectories started in the
\* attempt, the squared distance to the destination when the overshoot was
\* decided, whether the attempt's final point was dispatched, and whether a
\* trajectory of the call ended on a lost browser.  Of a scrolling call, sum,
\* wheels and via are history: the sum of the wheel deltas dispatched, their
\* number, and the scroll strategies invoked, in order.  spreadOverride is
\* the option of that name handed to the moveMouse in progress.  Of a click,
\* defaultClick is this.defaultOptions.click as the call reads it, and pressed
\* and released are history: button and clickCount of the mousePressed and
\* mouseReleased events the driver accepted, pressedAt and releasedAt the x and
\* y the two events were sent with, and reached the location at which the move
\* before the click was verified.  thenClick says that the client awaits
\* move(selector, options) and calls click(undefined, options) as soon as it has
\* returned; moveDelay is the option of that name of this move.
IdleCall ==
  [pc |-> "idle", op |-> "none", hasSelector |-> FALSE, selector |-> "none",
   wasRandom |-> FALSE, clickWasRandom |-> FALSE,
   iteration |-> 0, maxTries |-> 0,
   box |-> MovedBox, newBoundingBox |-> MovedBox, destination |-> origin,
   stage |-> "none", spreadOverride |-> undefined,
   vectors |-> <<>>, cur |-> origin, err |-> "none",
   entry |-> FALSE, tries |-> 0, trajs |-> 0, aimDist2 |-> 0,
   arrived |-> FALSE, lost |-> FALSE, scrolled |-> FALSE,
   scrollSpeed |-> 0, inViewportMargin |-> 0, scrollDestination |-> Keyword("none"),
   scrollPosition |-> origin, delta |-> origin, i |-> 0,
   sum |-> origin, wheels |-> 0, via |-> <<>>,
   defaultClick |-> NoOptions, options |-> NoOptions,
   pressed |-> NoOptions, released |-> NoOptions,
   moveDelay |-> 0, thenClick |-> FALSE, destinationOption |-> NoDestination,
   reached |-> origin, pressedAt |-> origin, releasedAt |-> origin]

IdleRoam == [pc |-> "off", vectors |-> <<>>, cur |-> origin, sent |-> 0, loops |-> 0]

\* the number of calls of randomMove the method makes when it runs
Started(method, on) == IF callsRandomMove(method, on) THEN 1 ELSE 0

\* the step just taken: who took it, what happened, whether it submitted the
\* next point of the same trajectory, the point whose dispatch was answered, the
\* location before the step, and the locals of the call the step ended
Step(who, ev, more, pt, rec) ==
  [who |-> who, ev |-> ev, more |-> more, pt |-> pt, from |-> location,
   rec |-> rec]

\* roamWrites after a step that leaves the flag at flag and in which roaming
\* wrote location (wrote = TRUE) or not
CountRoamWrites(flag, wrote) ==
  IF ~flag THEN 0
  ELSE IF wrote /\ roamWrites < MaxRoamWrites THEN roamWrites + 1
  ELSE roamWrites

Init ==
  /\ location = origin
  /\ moving = FALSE
  /\ connected = TRUE
  /\ call = [c \in Callers |-> IdleCall]
  /\ \E performRandomMoves \in BOOLEAN :
       roam = [IdleRoam EXCEPT
                 !.pc = IF callsRandomMove("constructor", performRandomMoves)
                        THEN "point" ELSE "off",
                 !.loops = Started("constructor", performRandomMoves)]
  /\ queue = <<>>
  /\ roamWrites = 0
  /\ last = Step("env", "init", FALSE, origin, IdleCall)

\* the locals r of caller c after a step: a call that has thrown or returned
\* gives up its locals, which the step's record keeps; an error of the move of
\* a click leaves click unless its try block holds the move
Settle(c, r, ev, more, pt) ==
  IF r.pc = "threw" /\ r.op = "click" /\ clickCatches("move")
  THEN /\ call' = [call EXCEPT ![c] = [r EXCEPT !.pc = "clickDelay"]]
       /\ last' = Step(c, "caught", FALSE, pt, IdleCall)
  ELSE IF r.pc \in {"threw", "returned"}
  THEN /\ call' = [call EXCEPT ![c] = IdleCall]
       /\ last' = Step(c, IF r.pc = "threw" THEN "throw" ELSE "return", FALSE, pt, r)
  ELSE /\ call' = [call EXCEPT ![c] = r]
       /\ last' = Step(c, ev, more, pt, IdleCall)

\* go(it) that, on a retry, reads the bounding box again without resolving the
\* target and scrolling to it
Go_FromBox(r, it) ==
  IF TriesExceeded(it, r.maxTries)
  THEN [r EXCEPT !.pc = "threw", !.err = "maxtries", !.iteration = it]
  ELSE [r EXCEPT !.pc = IF it = 0 THEN "getElement" ELSE "getBox",
                 !.iteration = it, !.tries = @ + 1,
                 !.box = MovedBox, !.destination = origin, !.stage = "none",
                 !.spreadOverride = undefined,
                 !.vectors = <<>>, !.cur = origin, !.trajs = 0, !.aimDist2 = 0,
                 !.arrived = FALSE]

\* go(it) up to its first await: the cap, then getElement is called
Go(r, it) ==
  IF TriesExceeded(it, r.maxTries)
  THEN [r EXCEPT !.pc = "threw", !.err = "maxtries", !.iteration = it]
  ELSE [r EXCEPT !.pc = "getElement", !.iteration = it, !.tries = @ + 1,
                 !.box = MovedBox, !.destination = origin, !.stage = "none",
                 !.spreadOverride = undefined,
                 !.vectors = <<>>, !.cur = origin, !.trajs = 0, !.aimDist2 = 0,
                 !.arrived = FALSE]

\* an awaited driver call rejects and the rejection leaves the public method
Throw(r, e) == [r EXCEPT !.pc = "threw", !.err = e]

\* the corrective moveMouse called with the options of the overshoot one
Corrective_SameOptions(r) == [r EXCEPT !.stage = "correct", !.trajs = 2]

\* the moveMouse after the overshoot one: the second trajectory of the attempt,
\* its options those of the call with spreadOverride: OVERSHOOT_SPREAD
Corrective(r) ==
  [r EXCEPT !.stage = "correct", !.trajs = 2, !.spreadOverride = OVERSHOOT_SPREAD]

\* moveMouse: the first (or next) point of vs is handed to the driver
Submit(r, vs) == [r EXCEPT !.pc = "send", !.cur = Head(vs), !.vectors = Tail(vs)]

\* delay(ms) sets a timer whatever ms is
Waits_Always(ms) == TRUE

\* delay(ms): for ms < 1 it returns without setting a timer
Waits(ms) == ms >= 1

\* the mousePressed event sent with the x and y of the destination of the move
MouseDown_AtDestination(r, loc) ==
  [r EXCEPT !.pc = "down", !.pressedAt = r.destination]

\* mouseDown(): mouseButtonAction sends mousePressed with the x and y of
\* this.location, which is loc
MouseDown(r, loc) == [r EXCEPT !.pc = "down", !.pressedAt = loc]

\* click(undefined, options) entered when the flag is flag and the location is
\* loc, by the client whose move has just returned: hesitate is 0, so
\* mousePressed is sent at once
EnterClick(r, flag, loc) ==
  MouseDown([r EXCEPT !.op = "click", !.clickWasRandom = ~flag], loc)

\* move(selector, { maxTries, destination })
CallMoveWith(c, mt, sel, destination) ==
  /\ call[c].pc = "idle"
  /\ moving' = toggleRandomMove(FALSE)
  /\ Settle(c, Go([IdleCall EXCEPT !.op = "move", !.hasSelector = TRUE,
                                   !.selector = sel,
                                   !.entry = moving, !.wasRandom = ~moving,
                                   !.maxTries = mt,
                                   !.destinationOption = destination], 0),
            "call", FALSE, origin)
  /\ roamWrites' = CountRoamWrites(moving', FALSE)
  /\ UNCHANGED <<location, connected, roam, queue>>

\* move(selector, options) without options.destination
CallMove(c, mt, sel) == CallMoveWith(c, mt, sel, NoDestination)

\* await move(selector, { moveDelay }) followed by await click(undefined,
\* { moveDelay }), the sequence click(selector) is documented as shorthand for
CallMoveThenClick(c, mt, sel, moveDelay) ==
  /\ call[c].pc = "idle"
  /\ moving' = toggleRandomMove(FALSE)
  /\ Settle(c, Go([IdleCall EXCEPT !.op = "move", !.hasSelector = TRUE,
                                   !.selector = sel,
                                   !.entry = moving, !.wasRandom = ~moving,
                                   !.maxTries = mt, !.thenClick = TRUE,
                                   !.moveDelay = moveDelay], 0),
            "call", FALSE, origin)
  /\ roamWrites' = CountRoamWrites(moving', FALSE)
  /\ UNCHANGED <<location, connected, roam, queue>>

\* moveTo(destination, options): moveMouse submits its first point at once
CallMoveTo(c, d) ==
  /\ call[c].pc = "idle"
  /\ moving' = toggleRandomMove(FALSE)
  /\ \E vs \in path(location, d) :
       Settle(c, Submit([IdleCall EXCEPT !.op = "moveTo", !.entry = moving,
                                         !.wasRandom = ~moving, !.destination = d,
                                         !.stage = "direct", !.trajs = 1], vs),
              "call", FALSE, origin)
  /\ queue' = Append(queue, c)
  /\ roamWrites' = CountRoamWrites(moving', FALSE)
  /\ UNCHANGED <<location, connected, roam>>

\* click(selector, options) with a selector: the move is entered at once, with
\* the flag already set by click
CallClickOn(c, mt, sel) ==
  /\ call[c].pc = "idle"
  /\ moving' = toggleRandomMove(FALSE)
  /\ Settle(c, Go([IdleCall EXCEPT !.op = "click", !.hasSelector = TRUE,
                                   !.selector = sel,
                                   !.entry = moving, !.clickWasRandom = ~moving,
                                   !.wasRandom = ~toggleRandomMove(FALSE),
                                   !.maxTries = mt], 0),
            "call", FALSE, origin)
  /\ roamWrites' = CountRoamWrites(moving', FALSE)
  /\ UNCHANGED <<location, connected, roam, queue>>

\* click(undefined, options) on a cursor whose defaultOptions.click is
\* defaultClick: mousePressed is dispatched at once
CallClickWith(c, defaultClick, options) ==
  /\ call[c].pc = "idle"
  /\ moving' = toggleRandomMove(FALSE)
  /\ Settle(c, MouseDown([IdleCall EXCEPT !.op = "click", !.entry = moving,
                                          !.clickWasRandom = ~moving,
                                          !.defaultClick = defaultClick,
                                          !.options = options], location),
            "call", FALSE, origin)
  /\ queue' = Append(queue, c)
  /\ roamWrites' = CountRoamWrites(moving', FALSE)
  /\ UNCHANGED <<location, connected, roam>>

\* click() without a selector and without options, no default set
CallClickHere(c) == CallClickWith(c, NoOptions, NoOptions)

\* getElement(selector) answers.  An ElementHandle is returned as it is, without
\* a driver call.  A string is queried: the element, or no match (which
\* throws), or the query rejects because the browser is gone.
GetElementDone(c) ==
  /\ call[c].pc = "getElement"
  /\ IF call[c].selector = "handle"
     THEN Settle(c, [call[c] EXCEPT !.pc = "scroll"], "found", FALSE, origin)
     ELSE IF connected
     THEN \/ Settle(c, [call[c] EXCEPT !.pc = "scroll"], "found", FALSE, origin)
          \/ Settle(c, Throw(call[c], NoMatch(call[c].selector)), "throw", FALSE, origin)
     ELSE Settle(c, Throw(call[c], "driver"), "throw", FALSE, origin)
  /\ UNCHANGED <<location, moving, connected, roam, queue, roamWrites>>

\* scrollIntoView(elem) answers; its page.evaluate rejects when the browser is gone
ScrollDone(c) ==
  /\ call[c].pc = "scroll"
  /\ IF connected
     THEN Settle(c, [call[c] EXCEPT !.pc = "getBox", !.scrolled = TRUE],
                 "scrolled", FALSE, origin)
     ELSE Settle(c, Throw(call[c], "driver"), "throw", FALSE, origin)
  /\ UNCHANGED <<location, moving, connected, roam, queue, roamWrites>>

\* getElementBox answers the box: the destination is drawn, the overshoot is
\* decided, the first moveMouse synthesizes its path and submits its first point
GetBoxDone(c) ==
  /\ call[c].pc = "getBox"
  /\ IF connected
     THEN /\ \E b \in Boxes : \E d \in destinationOf(b, call[c].destinationOption) :
               LET r == [call[c] EXCEPT
                           !.box = b, !.destination = d, !.trajs = 1,
                           !.aimDist2 = Sq(d.x - location.x) + Sq(d.y - location.y)]
               IN IF shouldOvershoot(location, d, DefaultOvershootThreshold)
                  THEN \E o \in overshoot(d, OVERSHOOT_RADIUS) :
                         \E vs \in path(location, o) :
                           Settle(c, Submit([r EXCEPT !.stage = "overshoot"], vs),
                                  "aimed", FALSE, origin)
                  ELSE \E vs \in path(location, d) :
                         Settle(c, Submit([r EXCEPT !.stage = "direct"], vs),
                                "aimed", FALSE, origin)
          /\ queue' = Append(queue, c)
     ELSE /\ Settle(c, Throw(call[c], "driver"), "throw", FALSE, origin)
          /\ UNCHANGED queue
  /\ UNCHANGED <<location, moving, connected, roam, roamWrites>>


\* Input.dispatchMouseEvent(mouseMoved) of caller c answers, ok or rejected.
\* When moveMouse has returned: the corrective moveMouse after the overshoot
\* one, else the restore of moveTo, else the second getElementBox of go.
DispatchDone(c) ==
  /\ call[c].pc = "send"
  /\ queue # <<>> /\ Head(queue) = c
  /\ \E ok \in BOOLEAN :
       /\ ok => connected
       /\ location' = locationAfter(ok, call[c].cur, location)
       /\ LET r == [call[c] EXCEPT
                      !.arrived = /\ ok
                                  /\ call[c].vectors = <<>>
                                  /\ call[c].stage \in {"direct", "correct"},
                      !.lost = @ \/ (~ok /\ ~connected)]
              exit == ~ok /\ ExitOnError(connected)
              goOn == ~exit /\ r.vectors # <<>> /\ ~AbortOnMove(FALSE, moving)
              ev == IF ok THEN "moved" ELSE "failed"
              over == [r EXCEPT !.vectors = <<>>, !.cur = origin]
          IN IF goOn
             THEN /\ Settle(c, Submit(r, r.vectors), ev, TRUE, r.cur)
                  /\ queue' = Append(Tail(queue), c)
                  /\ UNCHANGED moving
             ELSE IF r.stage = "overshoot"
             THEN /\ \E vs \in path(location', r.destination) :
                       Settle(c, Submit(Corrective(r), vs),
                              ev, FALSE, r.cur)
                  /\ queue' = Append(Tail(queue), c)
                  /\ UNCHANGED moving
             ELSE IF r.op = "moveTo"
             THEN /\ moving' = toggleRandomMove(r.wasRandom)
                  /\ Settle(c, [over EXCEPT !.pc = "moveDelay"], ev, FALSE, r.cur)
                  /\ queue' = Tail(queue)
             ELSE /\ Settle(c, [over EXCEPT !.pc = "newBox"], ev, FALSE, r.cur)
                  /\ queue' = Tail(queue)
                  /\ UNCHANGED moving
  /\ roamWrites' = CountRoamWrites(moving', FALSE)
  /\ UNCHANGED <<connected, roam>>

\* the second getElementBox answers: arrival is verified, and go returns (move
\* restores the flag; click goes on to mousePressed; a move whose moveDelay
\* sets no timer returns to its client, which calls click at once) or
\* go(iteration + 1) runs
NewBoxDone(c) ==
  /\ call[c].pc = "newBox"
  /\ IF connected
     THEN \E nb \in Boxes :
            LET r == [call[c] EXCEPT
                        !.newBoundingBox = nb,
                        !.reached = IF call[c].op = "click" \/ call[c].thenClick
                                    THEN location ELSE @]
            IN IF intersectsElement(location, nb)
               THEN IF r.op = "click"
                    THEN /\ moving' = toggleRandomMove(r.wasRandom)
                         /\ Settle(c, MouseDown(r, location), "verified", FALSE, origin)
                         /\ queue' = Append(queue, c)
                    ELSE IF r.thenClick /\ ~Waits(r.moveDelay)
                    THEN /\ moving' = toggleRandomMove(FALSE)
                         /\ Settle(c, EnterClick(r, toggleRandomMove(r.wasRandom),
                                                 location),
                                   "verified", FALSE, origin)
                         /\ queue' = Append(queue, c)
                    ELSE /\ moving' = toggleRandomMove(r.wasRandom)
                         /\ Settle(c, [r EXCEPT !.pc = "moveDelay"], "verified", FALSE, origin)
                         /\ UNCHANGED queue
               ELSE /\ Settle(c, Go(r, r.iteration + 1), "retry", FALSE, origin)
                    /\ UNCHANGED <<moving, queue>>
     ELSE /\ Settle(c, Throw(call[c], "driver"), "throw", FALSE, origin)
          /\ UNCHANGED <<moving, queue>>
  /\ roamWrites' = CountRoamWrites(moving', FALSE)
  /\ UNCHANGED <<location, connected, roam>>

\* the delay that ends move and moveTo is over: the call returns, and the
\* client that goes on with click() calls it at once
MoveDelayDone(c) ==
  /\ call[c].pc = "moveDelay"
  /\ IF call[c].thenClick
     THEN /\ moving' = toggleRandomMove(FALSE)
          /\ Settle(c, EnterClick(call[c], moving, location), "clicking", FALSE, origin)
          /\ queue' = Append(queue, c)
          /\ roamWrites' = CountRoamWrites(moving', FALSE)
     ELSE /\ Settle(c, [call[c] EXCEPT !.pc = "returned"], "return", FALSE, origin)
          /\ UNCHANGED <<moving, queue, roamWrites>>
  /\ UNCHANGED <<location, connected, roam>>

\* mousePressed answers: mouseUp dispatches mouseReleased, or the rejection is
\* caught and click goes to its delay
MouseDownDone(c) ==
  /\ call[c].pc = "down"
  /\ queue # <<>> /\ Head(queue) = c
  /\ \E ok \in BOOLEAN :
       /\ ok => connected
       /\ IF ok
          THEN /\ Settle(c, [call[c] EXCEPT
                              !.pc = "up", !.releasedAt = location,
                              !.pressed = mouseButtonAction(call[c].defaultClick,
                                                            clickPasses(call[c].options))],
                         "pressed", FALSE, origin)
               /\ queue' = Append(Tail(queue), c)
          ELSE /\ Settle(c, IF clickCatches("mouseDown")
                            THEN [call[c] EXCEPT !.pc = "clickDelay"]
                            ELSE Throw(call[c], "driver"),
                         "unpressed", FALSE, origin)
               /\ queue' = Tail(queue)
  /\ UNCHANGED <<location, moving, connected, roam, roamWrites>>

\* mouseReleased answers (a rejection is caught): click goes to its delay
MouseUpDone(c) ==
  /\ call[c].pc = "up"
  /\ queue # <<>> /\ Head(queue) = c
  /\ \E ok \in BOOLEAN :
       /\ ok => connected
       /\ Settle(c, IF ok \/ clickCatches("mouseUp")
                    THEN [call[c] EXCEPT
                            !.pc = "clickDelay",
                            !.released = IF ok
                                         THEN mouseButtonAction(call[c].defaultClick,
                                                                clickPasses(call[c].options))
                                         ELSE @]
                    ELSE Throw(call[c], "driver"),
                 IF ok THEN "released" ELSE "unreleased", FALSE, origin)
  /\ queue' = Tail(queue)
  /\ UNCHANGED <<location, moving, connected, roam, roamWrites>>

\* the delay that ends click is over: the flag is restored and click returns
ClickDelayDone(c) ==
  /\ call[c].pc = "clickDelay"
  /\ moving' = toggleRandomMove(call[c].clickWasRandom)
  /\ Settle(c, [call[c] EXCEPT !.pc = "returned"], "return", FALSE, origin)
  /\ roamWrites' = CountRoamWrites(moving', FALSE)
  /\ UNCHANGED <<location, connected, roam, queue>>


-----------------------------------------------------------------------------
(* The functions path, generateBezierAnchors and getRandomBoxPoint, applied *)

\* the start points, and the end points and rectangles, of the paths asked for
PathStarts == {Pt(0, 0), Pt(16, 12), Pt(-8, 4)}
PathEnds == PathStarts \cup {Rect(16, 12, 4, 4)}
PaddingPercentages == {undefined, -20, 0, 50, 100, 150}

\* the inputs of one application: the function and its arguments
PureInputs ==
  {[IdleCall EXCEPT !.op = "path", !.cur = start, !.destination = end,
                    !.options = options] :
     start \in PathStarts, end \in PathEnds, options \in PathOptions}
  \cup {[IdleCall EXCEPT !.op = "generateBezierAnchors", !.cur = a, !.destination = b,
                         !.options = [spread |-> spread]] :
          a \in PathStarts, b \in PathStarts, spread \in {MIN_SPREAD, 20}}
  \cup {[IdleCall EXCEPT !.op = "getRandomBoxPoint", !.box = b,
                         !.options = [paddingPercentage |-> paddingPercentage]] :
          b \in Boxes, paddingPercentage \in PaddingPercentages}

\* a cursor that is not roaming, and the inputs of an application
InitPure ==
  /\ location = origin
  /\ moving = FALSE
  /\ connected = TRUE
  /\ call = [c \in Callers |-> IdleCall]
  /\ roam = IdleRoam
  /\ queue = <<>>
  /\ roamWrites = 0
  /\ \E in \in PureInputs : last = Step("env", "input", FALSE, origin, in)

\* path(start, end, options) returns
ApplyPath(c) ==
  /\ last.ev = "input" /\ last.rec.op = "path"
  /\ \E re \in pathOf(last.rec.cur, last.rec.destination, last.rec.options) :
       Settle(c, [last.rec EXCEPT !.vectors = re, !.pc = "returned"],
              "return", FALSE, origin)
  /\ UNCHANGED <<location, moving, connected, roam, queue, roamWrites>>

\* generateBezierAnchors(a, b, spread) returns
ApplyAnchors(c) ==
  /\ last.ev = "input" /\ last.rec.op = "generateBezierAnchors"
  /\ \E anchors \in generateBezierAnchors(last.rec.cur, last.rec.destination,
                                           last.rec.options.spread) :
       Settle(c, [last.rec EXCEPT !.vectors = anchors, !.pc = "returned"],
              "return", FALSE, origin)
  /\ UNCHANGED <<location, moving, connected, roam, queue, roamWrites>>

\* getRandomBoxPoint(box, {paddingPercentage}) returns
ApplyBoxPoint(c) ==
  /\ last.ev = "input" /\ last.rec.op = "getRandomBoxPoint"
  /\ \E d \in getRandomBoxPoint(last.rec.box, last.rec.options.paddingPercentage) :
       Settle(c, [last.rec EXCEPT !.destination = d, !.pc = "returned"],
              "return", FALSE, origin)
  /\ UNCHANGED <<location, moving, connected, roam, queue, roamWrites>>

-----------------------------------------------------------------------------
(* scroll, scrollTo, scrollIntoView *)

\* the inputs of the scrolling calls
ScrollDistances == {-200, 0, 30, 400}
ScrollDeltas ==
  {Partial(keys, x, y) : keys \in SUBSET {"x", "y"},
                         x \in ScrollDistances, y \in ScrollDistances}
ScrollSpeeds == {1, 50, 90, 95, 100}
ScrollDestinations ==
  {Keyword("top"), Keyword("bottom"), Keyword("left"), Keyword("right"),
   Place(Partial({"x", "y"}, 400, 200)), Place(Partial({"y"}, 0, 200)),
   Place(Partial({"x"}, 400, 0))}
\* boxes of an element relative to the viewport: inside it, in its top left
\* corner, in its bottom right corner, below it, over its left edge, over its
\* top left corner, and wider than it
ElemBoxes ==
  {Rect(10, 10, 50, 50), Rect(0, 0, 50, 50), Rect(350, 250, 50, 50),
   Rect(10, 500, 50, 50), Rect(-30, 10, 50, 50), Rect(-30, -20, 50, 50),
   Rect(10, 10, 500, 50)}
Margins == {0, 10}

\* scroll(delta, options) up to its first await: the first wheel event is
\* dispatched, or with no step the delay is awaited
StartScroll(r, delta) ==
  [r EXCEPT !.delta = delta, !.i = 0,
            !.pc = IF scrollPlan(delta, r.scrollSpeed).numSteps > 0
                   THEN "wheel" ELSE "scrollDelay"]

\* the locals r are settled and the driver's queue gets the wheel event, if any
SettleScroll(c, r, ev, more, pt, q) ==
  /\ Settle(c, r, ev, more, pt)
  /\ queue' = IF r.pc = "wheel" THEN Append(q, c) ELSE q

\* scroll(delta, options)
CallScroll(c, delta, speed) ==
  /\ call[c].pc = "idle"
  /\ SettleScroll(c, StartScroll([IdleCall EXCEPT !.op = "scroll", !.scrollSpeed = speed],
                                 Pt(OrZero(delta, "x"), OrZero(delta, "y"))),
                  "call", FALSE, origin, queue)
  /\ UNCHANGED <<location, moving, connected, roam, roamWrites>>

\* Input.dispatchMouseEvent(mouseWheel) answers: the next wheel event or the
\* delay; a rejection leaves scroll, and inside scrollIntoView it is caught
\* and followed by the page-level scrollIntoView
WheelDone(c) ==
  /\ call[c].pc = "wheel"
  /\ queue # <<>> /\ Head(queue) = c
  /\ \E ok \in BOOLEAN :
       /\ ok => connected
       /\ LET r == call[c]
              p == scrollPlan(r.delta, r.scrollSpeed)
              d == wheelDelta(p, r.i)
              done == [r EXCEPT !.sum = add(@, d), !.wheels = @ + 1, !.i = @ + 1]
          IN IF ok
             THEN IF done.i < p.numSteps
                  THEN SettleScroll(c, done, "wheel", TRUE, d, Tail(queue))
                  ELSE SettleScroll(c, [done EXCEPT !.pc = "scrollDelay"],
                                    "wheel", FALSE, d, Tail(queue))
             ELSE IF r.op = "scrollIntoView" /\ scrollCatches("wheel")
             THEN SettleScroll(c, [r EXCEPT !.pc = "jsScroll", !.via = Append(@, "js")],
                               "wheelFailed", FALSE, d, Tail(queue))
             ELSE SettleScroll(c, Throw(r, "driver"), "throw", FALSE, d, Tail(queue))
  /\ UNCHANGED <<location, moving, connected, roam, roamWrites>>

\* the delay that ends scroll is over: scroll returns, and so does the
\* scrollTo or scrollIntoView that awaited it
ScrollDelayDone(c) ==
  /\ call[c].pc = "scrollDelay"
  /\ Settle(c, [call[c] EXCEPT !.pc = "returned"], "return", FALSE, origin)
  /\ UNCHANGED <<location, moving, connected, roam, queue, roamWrites>>

\* scrollTo(destination, options)
CallScrollTo(c, destination, speed) ==
  /\ call[c].pc = "idle"
  /\ Settle(c, [IdleCall EXCEPT !.op = "scrollTo", !.scrollSpeed = speed,
                                !.scrollDestination = destination,
                                !.pc = "evaluate"],
            "call", FALSE, origin)
  /\ UNCHANGED <<location, moving, connected, roam, queue, roamWrites>>

\* page.evaluate answers the document's size and the scroll position: scrollTo
\* computes the delta and calls scroll
EvaluateDone(c) ==
  /\ call[c].pc = "evaluate"
  /\ IF connected
     THEN \E pos \in ScrollPositions :
            SettleScroll(c, StartScroll([call[c] EXCEPT !.scrollPosition = pos],
                                        scrollToDelta(scrollToTarget(call[c].scrollDestination,
                                                                     Document), pos)),
                         "evaluated", FALSE, origin, queue)
     ELSE SettleScroll(c, Throw(call[c], "driver"), "throw", FALSE, origin, queue)
  /\ UNCHANGED <<location, moving, connected, roam, roamWrites>>

\* scrollIntoView(selector, options) with an ElementHandle
CallScrollIntoView(c, speed, margin) ==
  /\ call[c].pc = "idle"
  /\ Settle(c, [IdleCall EXCEPT !.op = "scrollIntoView", !.scrollSpeed = speed,
                                !.inViewportMargin = margin, !.selector = "handle",
                                !.hasSelector = TRUE, !.pc = "measure"],
            "call", FALSE, origin)
  /\ UNCHANGED <<location, moving, connected, roam, queue, roamWrites>>

\* scrollIntoView, a strategy is invoked: manuallyScroll calls scroll
Manually(r) ==
  StartScroll([r EXCEPT !.via = Append(@, "wheel")],
              manualDelta(targetBox(r.box, r.inViewportMargin, r.scrollPosition, Document),
                          Document))

\* page.evaluate and getElementBox have answered: in the viewport nothing is
\* done; otherwise the native scroll is requested or manuallyScroll is called
MeasureDone(c) ==
  /\ call[c].pc = "measure"
  /\ IF connected
     THEN \E pos \in ScrollPositions : \E b \in ElemBoxes :
            LET r == [call[c] EXCEPT !.scrollPosition = pos, !.box = b]
                t == targetBox(b, r.inViewportMargin, pos, Document)
            IN IF isInViewport(t, Document)
               THEN SettleScroll(c, [r EXCEPT !.pc = "returned"], "return", FALSE,
                                 origin, queue)
               ELSE IF useNative(r.scrollSpeed, r.inViewportMargin)
               THEN SettleScroll(c, [r EXCEPT !.pc = "native", !.via = <<"native">>],
                                 "measured", FALSE, origin, queue)
               ELSE SettleScroll(c, Manually(r), "measured", FALSE, origin, queue)
     ELSE SettleScroll(c, Throw(call[c], "driver"), "throw", FALSE, origin, queue)
  /\ UNCHANGED <<location, moving, connected, roam, roamWrites>>

\* DOM.scrollIntoViewIfNeeded answers
NativeDone(c) ==
  /\ call[c].pc = "native"
  /\ \E ok \in BOOLEAN :
       /\ ok => connected
       /\ IF ok
          THEN SettleScroll(c, [call[c] EXCEPT !.pc = "returned"], "return", FALSE,
                            origin, queue)
          ELSE IF scrollCatches("native")
          THEN SettleScroll(c, Manually(call[c]), "nativeFailed", FALSE, origin, queue)
          ELSE SettleScroll(c, Throw(call[c], "driver"), "throw", FALSE, origin, queue)
  /\ UNCHANGED <<location, moving, connected, roam, roamWrites>>

\* elem.evaluate(e => e.scrollIntoView(...)) answers
JsScrollDone(c) ==
  /\ call[c].pc = "jsScroll"
  /\ \E ok \in BOOLEAN :
       /\ ok => connected
       /\ IF ok \/ scrollCatches("js")
          THEN Settle(c, [call[c] EXCEPT !.pc = "returned"], "return", FALSE, origin)
          ELSE Settle(c, Throw(call[c], "driver"), "throw", FALSE, origin)
  /\ UNCHANGED <<location, moving, connected, roam, queue, roamWrites>>

-----------------------------------------------------------------------------
(* randomMove, the roaming loop *)

\* getRandomPagePoint answers a point of the window, or rejects when the browser
\* is gone (caught: the loop stops).  moveMouse(rand, options, true) synthesizes
\* its path and looks at the flag before it submits the first point.
RoamPointDone ==
  /\ roam.pc = "point"
  /\ IF connected
     THEN \E rand \in getRandomPagePoint : \E vs \in path(location, rand) :
            IF AbortOnMove(TRUE, moving)
            THEN /\ roam' = [pc |-> "delay", vectors |-> vs, cur |-> origin, sent |-> 0,
                             loops |-> roam.loops]
                 /\ last' = Step(Roam, "yield", FALSE, origin, IdleCall)
                 /\ UNCHANGED queue
            ELSE /\ roam' = [pc |-> "send", vectors |-> Tail(vs), cur |-> Head(vs),
                             sent |-> 1, loops |-> roam.loops]
                 /\ last' = Step(Roam, "start", FALSE, origin, IdleCall)
                 /\ queue' = Append(queue, Roam)
     ELSE /\ roam' = [IdleRoam EXCEPT !.pc = IF randomMoveCatches("getRandomPagePoint")
                                             THEN "off" ELSE "rejected",
                                      !.loops = roam.loops - 1]
          /\ last' = Step(Roam, "stop", FALSE, origin, IdleCall)
          /\ UNCHANGED queue
  /\ UNCHANGED <<location, moving, connected, call, roamWrites>>

\* Input.dispatchMouseEvent(mouseMoved) of the roaming trajectory answers
RoamDispatchDone ==
  /\ roam.pc = "send"
  /\ queue # <<>> /\ Head(queue) = Roam
  /\ \E ok \in BOOLEAN :
       /\ ok => connected
       /\ location' = locationAfter(ok, roam.cur, location)
       /\ roamWrites' = CountRoamWrites(moving, ok)
       /\ LET exit == ~ok /\ ExitOnError(connected)
              goOn == ~exit /\ roam.vectors # <<>> /\ ~AbortOnMove(TRUE, moving)
          IN /\ IF goOn
                THEN /\ roam' = [pc |-> "send", vectors |-> Tail(roam.vectors),
                                 cur |-> Head(roam.vectors), sent |-> roam.sent + 1,
                                 loops |-> roam.loops]
                     /\ queue' = Append(Tail(queue), Roam)
                ELSE /\ roam' = [roam EXCEPT !.pc = "delay", !.cur = origin]
                     /\ queue' = Tail(queue)
             /\ last' = Step(Roam, IF ok THEN "moved" ELSE "failed", goOn,
                             roam.cur, IdleCall)
  /\ UNCHANGED <<moving, connected, call>>

\* the delay of randomMove is over: randomMove calls itself, which asks for a
\* random point if the flag is clear and goes to its delay again if not
RoamDelayDone ==
  /\ roam.pc = "delay"
  /\ roam' = [IdleRoam EXCEPT !.pc = randomMoveAgain(moving),
                               !.loops = roam.loops - 1 + Started("randomMove", TRUE)]
  /\ last' = Step(Roam, IF ~moving THEN "again" ELSE "idle", FALSE, origin, IdleCall)
  /\ UNCHANGED <<location, moving, connected, call, queue, roamWrites>>

-----------------------------------------------------------------------------
(* The environment *)

\* the browser disconnects
Disconnect ==
  /\ connected
  /\ connected' = FALSE
  /\ last' = Step("env", "disconnect", FALSE, origin, IdleCall)
  /\ UNCHANGED <<location, moving, call, roam, queue, roamWrites>>

\* the client calls toggleRandomMove(random) between two directed calls
ToggleRandomMove(random) ==
  /\ \A c \in Callers : call[c].pc = "idle"
  /\ moving' = toggleRandomMove(random)
  /\ roamWrites' = CountRoamWrites(moving', FALSE)
  /\ roam' = [roam EXCEPT !.loops = @ + Started("toggleRandomMove", random)]
  /\ last' = Step("env", "toggle", FALSE, origin, IdleCall)
  /\ UNCHANGED <<location, connected, call, queue>>

-----------------------------------------------------------------------------
(* Specifications *)

\* one client, which awaits each directed call before it makes the next
Client == "c1"

Next ==
  \/ \E mt \in MaxTriesInputs : CallMove(Client, mt, "css")
  \/ \E d \in Points : CallMoveTo(Client, d)
  \/ \E mt \in MaxTriesInputs : CallClickOn(Client, mt, "handle")
  \/ CallClickHere(Client)
  \/ GetElementDone(Client)
  \/ ScrollDone(Client)
  \/ GetBoxDone(Client)
  \/ DispatchDone(Client)
  \/ NewBoxDone(Client)
  \/ MoveDelayDone(Client)
  \/ MouseDownDone(Client)
  \/ MouseUpDone(Client)
  \/ ClickDelayDone(Client)
  \/ RoamPointDone
  \/ RoamDispatchDone
  \/ RoamDelayDone
  \/ Disconnect
  \/ \E random \in BOOLEAN : ToggleRandomMove(random)

Spec == Init /\ [][Next]_vars


\* two clients of the same cursor, neither waiting for the other, no roaming:
\* the first calls move, the second calls moveTo while the first is at work or not
Other == "c2"

InitTwo == Init /\ roam.pc = "off"

NextTwo ==
  \/ \E mt \in MaxTriesInputs : CallMove(Client, mt, "css")
  \/ GetElementDone(Client)
  \/ ScrollDone(Client)
  \/ GetBoxDone(Client)
  \/ DispatchDone(Client)
  \/ NewBoxDone(Client)
  \/ MoveDelayDone(Client)
  \/ \E d \in {origin, Pt(302, 402)} : CallMoveTo(Other, d)
  \/ DispatchDone(Other)
  \/ MoveDelayDone(Other)

SpecTwo == InitTwo /\ [][NextTwo]_vars

\* one client that calls scroll, scrollTo and scrollIntoView, no roaming
NextScroll ==
  \/ \E delta \in ScrollDeltas : \E speed \in ScrollSpeeds :
       CallScroll(Client, delta, speed)
  \/ \E destination \in ScrollDestinations : \E speed \in {50, 100} :
       CallScrollTo(Client, destination, speed)
  \/ \E speed \in {50, 100} : \E margin \in Margins :
       CallScrollIntoView(Client, speed, margin)
  \/ EvaluateDone(Client)
  \/ MeasureDone(Client)
  \/ NativeDone(Client)
  \/ WheelDone(Client)
  \/ JsScrollDone(Client)
  \/ ScrollDelayDone(Client)
  \/ Disconnect

SpecScroll == InitTwo /\ [][NextScroll]_vars

\* one client that clicks where the cursor is, with every combination of
\* default and call options, no roaming
NextClick ==
  \/ \E defaultClick \in MouseButtonOptions : \E options \in MouseButtonOptions :
       CallClickWith(Client, defaultClick, options)
  \/ MouseDownDone(Client)
  \/ MouseUpDone(Client)
  \/ ClickDelayDone(Client)
  \/ Disconnect

SpecClick == InitTwo /\ [][NextClick]_vars

\* the pure functions applied to every input of the model
NextPure ==
  \/ ApplyPath(Client)
  \/ ApplyAnchors(Client)
  \/ ApplyBoxPoint(Client)

SpecPure == InitPure /\ [][NextPure]_vars

\* one client that clicks on an element given by every kind of selector, or
\* where the cursor is, no roaming
NextClickOn ==
  \/ \E mt \in MaxTriesInputs : \E sel \in Selectors : CallClickOn(Client, mt, sel)
  \/ CallClickHere(Client)
  \/ GetElementDone(Client)
  \/ ScrollDone(Client)
  \/ GetBoxDone(Client)
  \/ DispatchDone(Client)
  \/ NewBoxDone(Client)
  \/ MouseDownDone(Client)
  \/ MouseUpDone(Client)
  \/ ClickDelayDone(Client)
  \/ Disconnect

SpecClickOn == InitTwo /\ [][NextClickOn]_vars

\* the moveDelay options the client passes: none set, and the default of click
MoveDelays == {0, 2000}

\* one client that clicks on an element in one call or in two, move(selector)
\* and then click(), or clicks where the cursor is, with roaming on or off and
\* the browser connected
NextPair ==
  \/ \E mt \in MaxTriesInputs : CallClickOn(Client, mt, "handle")
  \/ \E mt \in MaxTriesInputs : \E moveDelay \in MoveDelays :
       CallMoveThenClick(Client, mt, "handle", moveDelay)
  \/ CallClickHere(Client)
  \/ GetElementDone(Client)
  \/ ScrollDone(Client)
  \/ GetBoxDone(Client)
  \/ DispatchDone(Client)
  \/ NewBoxDone(Client)
  \/ MoveDelayDone(Client)
  \/ MouseDownDone(Client)
  \/ MouseUpDone(Client)
  \/ ClickDelayDone(Client)
  \/ RoamPointDone
  \/ RoamDispatchDone
  \/ RoamDelayDone

SpecPair == Init /\ [][NextPair]_vars

\* every operation that dispatches an event at the cursor: moveTo, move, click
\* at the location, scroll, the roaming loop, toggleRandomMove, a disconnect
NextWhere ==
  \/ \E mt \in MaxTriesInputs : CallMove(Client, mt, "css")
  \/ \E d \in Points : CallMoveTo(Client, d)
  \/ CallClickHere(Client)
  \/ \E delta \in WhereScrollDeltas : \E speed \in WhereScrollSpeeds :
       CallScroll(Client, delta, speed)
  \/ GetElementDone(Client)
  \/ ScrollDone(Client)
  \/ GetBoxDone(Client)
  \/ DispatchDone(Client)
  \/ NewBoxDone(Client)
  \/ MoveDelayDone(Client)
  \/ MouseDownDone(Client)
  \/ MouseUpDone(Client)
  \/ ClickDelayDone(Client)
  \/ WheelDone(Client)
  \/ ScrollDelayDone(Client)
  \/ RoamPointDone
  \/ RoamDispatchDone
  \/ RoamDelayDone
  \/ Disconnect
  \/ \E random \in BOOLEAN : ToggleRandomMove(random)

SpecWhere == Init /\ [][NextWhere]_vars

\* move with and without options.destination
NextEdge ==
  \/ \E mt \in MaxTriesInputs : \E destination \in DestinationOptions :
       CallMoveWith(Client, mt, "handle", destination)
  \/ GetElementDone(Client)
  \/ ScrollDone(Client)
  \/ GetBoxDone(Client)
  \/ DispatchDone(Client)
  \/ NewBoxDone(Client)
  \/ MoveDelayDone(Client)
  \/ Disconnect

SpecEdge == InitTwo /\ [][NextEdge]_vars

\* the roaming loop beside moveTo, click at the location and toggleRandomMove
NextRoam ==
  \/ \E d \in Points : CallMoveTo(Client, d)
  \/ CallClickHere(Client)
  \/ DispatchDone(Client)
  \/ MoveDelayDone(Client)
  \/ MouseDownDone(Client)
  \/ MouseUpDone(Client)
  \/ ClickDelayDone(Client)
  \/ RoamPointDone
  \/ RoamDispatchDone
  \/ RoamDelayDone
  \/ Disconnect
  \/ \E random \in BOOLEAN : ToggleRandomMove(random)

SpecRoam == Init /\ [][NextRoam]_vars

\* the browser stays connected; the driver answers every call it was sent and
\* every timer fires, while the client is free to call or not
NextLive ==
  \/ \E mt \in MaxTriesInputs : CallMove(Client, mt, "handle")
  \/ \E d \in {origin, Pt(302, 402)} : CallMoveTo(Client, d)
  \/ CallClickHere(Client)
  \/ GetElementDone(Client)
  \/ ScrollDone(Client)
  \/ GetBoxDone(Client)
  \/ DispatchDone(Client)
  \/ NewBoxDone(Client)
  \/ MoveDelayDone(Client)
  \/ MouseDownDone(Client)
  \/ MouseUpDone(Client)
  \/ ClickDelayDone(Client)
  \/ RoamPointDone
  \/ RoamDispatchDone
  \/ RoamDelayDone
  \/ \E random \in BOOLEAN : ToggleRandomMove(random)

Answers ==
  /\ WF_vars(GetElementDone(Client))
  /\ WF_vars(ScrollDone(Client))
  /\ WF_vars(GetBoxDone(Client))
  /\ WF_vars(NewBoxDone(Client))
  /\ WF_vars(DispatchDone(Client))
  /\ WF_vars(MoveDelayDone(Client))
  /\ WF_vars(MouseDownDone(Client))
  /\ WF_vars(MouseUpDone(Client))
  /\ WF_vars(ClickDelayDone(Client))
  /\ WF_vars(RoamPointDone)
  /\ WF_vars(RoamDispatchDone)
  /\ WF_vars(RoamDelayDone)

SpecLive == Init /\ [][NextLive]_vars /\ Answers

\* one client that calls move with every kind of selector, no roaming
NextFind ==
  \/ \E mt \in MaxTriesInputs : \E sel \in Selectors : CallMove(Client, mt, sel)
  \/ GetElementDone(Client)
  \/ ScrollDone(Client)
  \/ GetBoxDone(Client)
  \/ DispatchDone(Client)
  \/ NewBoxDone(Client)
  \/ MoveDelayDone(Client)
  \/ Disconnect

SpecFind == InitTwo /\ [][NextFind]_vars

-----------------------------------------------------------------------------
(* Properties *)

\* C1 (as stated): move() on a target whose re-fetched box never holds the
\* location throws the retry-cap error after exactly maxTries attempts.
C1_ExactlyMaxTriesAttempts ==
  (last.ev = "throw" /\ last.rec.err = "maxtries")
    => last.rec.tries = last.rec.maxTries

\* C2 (as stated): a directed call leaves the moving flag, when it finishes by a
\* return or by a thrown error, at the value it had when the call was entered.
C2_FlagRestoredOnEveryExit ==
  last.ev \in {"throw", "return"} => moving = last.rec.entry

C4_RoamSubmitsNothingWhileMoving ==
  (last.who = Roam /\ moving)
    => (~last.more /\ last.ev # "start" /\ roam.pc # "send")

\* C4 witness: a roaming point was answered with the flag set and points of
\* the trajectory left, and roaming went to its delay
C4_RoamStoppedMidTrajectory ==
  /\ last.who = Roam /\ last.ev = "moved" /\ moving
  /\ roam.vectors # <<>> /\ roam.pc = "delay"
  /\ call[Client].pc # "idle"

\* C5 (as stated): roaming never changes location while a directed call that
\* has set the flag is in progress.
C5_RoamNeverWritesWhileMoving ==
  (last.who = Roam /\ moving /\ call[Client].pc # "idle") => last.ev # "moved"

\* C5 (amended): after the flag is set roaming writes location at most once,
\* for the point it had in flight when the flag was set, until the flag is
\* cleared again.
C5_AtMostOneRoamWrite ==
  roamWrites <= 1

\* C5 witness: the point roaming had in flight was answered during a directed call
C5_RoamWroteInFlightPoint ==
  /\ roamWrites = 1
  /\ last.who = Roam /\ last.ev = "moved" /\ location # last.from
  /\ call[Client].pc # "idle" /\ moving

C8_VerifiedIffInsideBox ==
  LET inside(p, b) == /\ p.x > b.x /\ p.x <= b.x + b.width
                      /\ p.y > b.y /\ p.y <= b.y + b.height
  IN last.who = Client =>
       /\ last.ev = "verified" => inside(location, call[Client].newBoundingBox)
       /\ last.ev = "retry" => ~inside(location, call[Client].newBoundingBox)
       /\ (last.ev = "throw" /\ last.rec.err = "maxtries")
            => ~inside(location, last.rec.newBoundingBox)
       /\ call[Client].pc \in {"moveDelay", "down"} /\ call[Client].hasSelector
            => last.ev = "verified"

\* C8 witness: the location on the left edge of the re-fetched box was retried
C8_LeftEdgeRetried ==
  /\ last.who = Client /\ last.ev = "retry"
  /\ call[Client].newBoundingBox = TargetBox
  /\ location.x = TargetBox.x /\ location.y > TargetBox.y

\* C9: a point whose dispatch fails while the browser is connected is skipped
\* without a change of location and the remaining points are dispatched in
\* order; location changes only after a dispatch that succeeded, to its point.
C9_SkipAndContinue ==
  [][LET r == call[Client]
     IN /\ (r.pc = "send" /\ last'.who = Client /\ last'.ev = "failed" /\ connected)
             => /\ location' = location
                /\ r.vectors # <<>>
                     => /\ last'.more
                        /\ call'[Client].pc = "send"
                        /\ call'[Client].cur = Head(r.vectors)
                        /\ call'[Client].vectors = Tail(r.vectors)
        /\ location' # location
             => /\ last'.ev = "moved"
                /\ location' = last'.pt
                /\ last'.who = Client => r.pc = "send" /\ last'.pt = r.cur
                /\ last'.who = Roam => roam.pc = "send" /\ last'.pt = roam.cur
        /\ (last'.ev = "moved" /\ last'.who \in {Client, Roam})
             => location' = last'.pt]_vars

\* C9 witness: a dispatch failed with the browser connected and the next point
\* of the trajectory was submitted
C9_SkippedPoint ==
  /\ last.who = Client /\ last.ev = "failed" /\ connected
  /\ last.more /\ location = last.from
  /\ call[Client].pc = "send"

C11_NotFoundWithoutEffect ==
  (/\ last.who = Client /\ last.ev = "throw"
   /\ last.rec.op = "move" /\ last.rec.tries = 1
   /\ last.rec.err \in {"notfound", "typeerror"})
    => /\ last.rec.err = "notfound"
       /\ last.rec.trajs = 0
       /\ ~last.rec.scrolled
       /\ location = last.from

C13_ToggleTurnsRoamingOn ==
  /\ (last.ev = "toggle" /\ ~moving /\ connected) => roam.pc # "off"
  /\ (last.who = Roam /\ last.ev = "start") => ~moving

\* C14 (as stated): when roaming is toggled off the loop stops rescheduling
\* itself.
C14_StopsWhenToggledOff ==
  [][(roam.pc = "delay" /\ moving /\ roam' # roam) => roam'.pc = "off"]_vars

\* C14 (amended): the loop stops, without an error, when it asks for a random
\* point and the browser is gone, and only then; toggled off it does not stop:
\* after every delay it reschedules itself, and only delays again while the flag
\* is set.
C14_StopsOnDisconnectOnly ==
  [][roam' # roam =>
       /\ roam.pc = "delay" => roam'.pc = (IF moving THEN "delay" ELSE "point")
       /\ (roam.pc = "point" /\ ~connected) => roam'.pc = "off"
       /\ roam'.pc = "off" => (roam.pc = "point" /\ ~connected)]_vars

\* C14 witness: the loop has stopped on a browser that is gone
C14_StoppedOnDisconnect ==
  /\ last.who = Roam /\ last.ev = "stop"
  /\ roam.pc = "off" /\ ~connected
  /\ call[Client].pc = "idle"

\* C15: a failure inside the roaming loop is caught inside the loop: the promise
\* of randomMove is never rejected, and the step leaves the directed call in
\* progress, the flag and the caller untouched.
C15_RoamErrorsSwallowed ==
  [][last'.who = Roam =>
       /\ roam'.pc # "rejected"
       /\ last'.ev # "throw"
       /\ call' = call
       /\ moving' = moving]_vars

\* C15 witness: choosing the random point failed while a directed call was in
\* progress, and the loop stopped
C15_RoamFailedBesideCall ==
  /\ last.who = Roam /\ last.ev = "stop"
  /\ roam.pc = "off"
  /\ call[Client].pc = "send"

\* C16: scroll(delta, options) scrolls the page the distance set by delta: when
\* scroll or scrollTo returns, the deltaX of the wheel events it dispatched sum
\* to delta.x and the deltaY to delta.y, signs included, for every delta and
\* every scrollSpeed.
C16_WheelDeltasSumToDelta ==
  (/\ last.who = Client /\ last.ev = "return"
   /\ last.rec.op \in {"scroll", "scrollTo"})
    => last.rec.sum = last.rec.delta

\* the axes a destination of scrollTo names
NamedAxes(destination) ==
  IF destination.word \in {"top", "bottom"} THEN {"y"}
  ELSE IF destination.word \in {"left", "right"} THEN {"x"}
  ELSE DOMAIN destination.point

\* C17: scrollTo changes only the axis it names: 'top' and 'bottom' request a
\* vertical scroll to 0 and to the document height, 'left' and 'right' a
\* horizontal scroll to 0 and to the document width, a point a scroll to its
\* coordinates; on an axis the destination does not name the requested delta
\* is 0, every wheel event carries 0 and the dispatched total is 0.
C17_ScrollToOnlyNamedAxis ==
  LET r == call[Client]
      d == r.scrollDestination
      pos == r.scrollPosition
      done == last.rec
  IN /\ (last.who = Client /\ last.ev = "evaluated") =>
          /\ d.word = "top" => r.delta.y = 0 - pos.y
          /\ d.word = "bottom" => r.delta.y = Document.docHeight - pos.y
          /\ d.word = "left" => r.delta.x = 0 - pos.x
          /\ d.word = "right" => r.delta.x = Document.docWidth - pos.x
          /\ \A k \in NamedAxes(d) :
               d.word = "point" => r.delta[k] = d.point[k] - pos[k]
          /\ \A k \in {"x", "y"} \ NamedAxes(d) : r.delta[k] = 0
     /\ (last.who = Client /\ last.ev = "wheel" /\ r.op = "scrollTo") =>
          \A k \in {"x", "y"} \ NamedAxes(d) : last.pt[k] = 0
     /\ (last.who = Client /\ last.ev = "return" /\ done.op = "scrollTo") =>
          \A k \in {"x", "y"} \ NamedAxes(done.scrollDestination) : done.sum[k] = 0

\* C17 witness: scrollTo('bottom') from the scroll position (400, 600) has
\* returned after scrolling 300 down and nothing sideways
C17_ScrolledToBottom ==
  /\ last.who = Client /\ last.ev = "return"
  /\ last.rec.op = "scrollTo"
  /\ last.rec.scrollDestination = Keyword("bottom")
  /\ last.rec.scrollPosition = Pt(400, 600)
  /\ last.rec.sum = Pt(0, 300)

\* the box of the target of r, extended by the margin and restricted to the
\* document, lies inside the viewport
Contained(r) ==
  LET t == targetBox(r.box, r.inViewportMargin, r.scrollPosition, Document)
  IN /\ 0 <= t.top /\ t.bottom <= Document.viewportHeight
     /\ 0 <= t.left /\ t.right <= Document.viewportWidth

\* C18: scrollIntoView on a target whose box, extended by the margin and
\* restricted to the document, already lies inside the viewport performs no
\* scroll at all: it returns with no wheel event dispatched and no strategy
\* (native, wheel, page-level) invoked, and no scrollIntoView with such a
\* target is ever past its measurement.
C18_InViewNoScroll ==
  /\ (/\ last.who = Client /\ last.ev = "return"
      /\ last.rec.op = "scrollIntoView" /\ Contained(last.rec))
       => /\ last.rec.via = <<>>
          /\ last.rec.wheels = 0 /\ last.rec.sum = origin
          /\ queue = <<>>
  /\ (call[Client].op = "scrollIntoView" /\ call[Client].pc # "measure")
       => ~Contained(call[Client])

\* C18 witness: scrollIntoView has returned for an element in the top left
\* corner of the page with a margin of 10, which reaches over the document's
\* edge before it is restricted to the document
C18_CornerInView ==
  /\ last.who = Client /\ last.ev = "return"
  /\ last.rec.op = "scrollIntoView"
  /\ last.rec.box = Rect(0, 0, 50, 50) /\ last.rec.inViewportMargin = 10
  /\ last.rec.scrollPosition = origin
  /\ last.rec.via = <<>>

\* C19 as claimed: the scroll fallback chain of scrollIntoView never throws:
\* once a scroll strategy was invoked, scrollIntoView does not end with an
\* error.
C19_ChainNeverThrows ==
  ~(/\ last.who = Client /\ last.ev = "throw"
    /\ last.rec.op = "scrollIntoView" /\ last.rec.via # <<>>)

\* C19 amended: a failed native scroll is followed by the wheel scroll and a
\* failed wheel scroll by the page-level scrollIntoView, neither error reaching
\* the caller; the chain throws only when the page-level scrollIntoView, the
\* last strategy, has failed after the wheel scroll.
C19_ThrowsOnlyAfterLastFallback ==
  /\ (last.who = Client /\ last.ev = "nativeFailed") =>
       /\ call[Client].via = <<"native", "wheel">>
       /\ call[Client].pc \in {"wheel", "scrollDelay"}
  /\ (last.who = Client /\ last.ev = "wheelFailed") =>
       /\ call[Client].via \in {<<"wheel", "js">>, <<"native", "wheel", "js">>}
       /\ call[Client].pc = "jsScroll"
  /\ (/\ last.who = Client /\ last.ev = "throw"
      /\ last.rec.op = "scrollIntoView" /\ last.rec.via # <<>>)
       => last.rec.via \in {<<"wheel", "js">>, <<"native", "wheel", "js">>}

\* C19 witness: the native scroll, the wheel scroll and the page-level
\* scrollIntoView failed in turn and scrollIntoView threw
C19_EveryStrategyFailed ==
  /\ last.who = Client /\ last.ev = "throw"
  /\ last.rec.op = "scrollIntoView"
  /\ last.rec.via = <<"native", "wheel", "js">>

\* C20: click dispatches its mousePressed and mouseReleased events with the
\* button and the clickCount given in the call's options, and with 'left' and
\* 1 when neither the call nor the cursor's defaults give one.
C20_ClickUsesCallOptions ==
  LET r == call[Client]
      Carries(e) ==
        /\ e.button = (IF r.options.button # "none" THEN r.options.button
                       ELSE IF r.defaultClick.button # "none" THEN e.button
                       ELSE "left")
        /\ e.clickCount = (IF r.options.clickCount # 0 THEN r.options.clickCount
                           ELSE IF r.defaultClick.clickCount # 0 THEN e.clickCount
                           ELSE 1)
  IN /\ (last.who = Client /\ last.ev = "pressed") => Carries(r.pressed)
     /\ (last.who = Client /\ last.ev = "released") => Carries(r.released)

\* the call of a pure function that has just returned, and whether it was of f
Returned(f) == last.who = Client /\ last.ev = "return" /\ last.rec.op = f

\* C22 as claimed: for every start point and every end point or rectangle the
\* first point of path(start, end) equals start exactly and the last point
\* equals end exactly.
C22_PathFromStartToEnd ==
  Returned("path") =>
    LET re == last.rec.vectors
    IN /\ re[1].x = last.rec.cur.x /\ re[1].y = last.rec.cur.y
       /\ re[Len(re)].x = last.rec.destination.x
       /\ re[Len(re)].y = last.rec.destination.y

\* C22 amended: the first point of path(start, end) is start and the last is
\* the point (end.x, end.y), each with its negative coordinates replaced by 0.
C22_PathFromClampedStartToEnd ==
  Returned("path") =>
    LET re == last.rec.vectors
        start == last.rec.cur
        end == last.rec.destination
    IN /\ Len(re) >= 2
       /\ re[1].x = (IF start.x < 0 THEN 0 ELSE start.x)
       /\ re[1].y = (IF start.y < 0 THEN 0 ELSE start.y)
       /\ re[Len(re)].x = (IF end.x < 0 THEN 0 ELSE end.x)
       /\ re[Len(re)].y = (IF end.y < 0 THEN 0 ELSE end.y)

\* C22 witness: a path asked from (-8, 4) to the rectangle at (16, 12) starts
\* at (0, 4) and ends at (16, 12)
C22_PathFromOffScreen ==
  /\ Returned("path")
  /\ last.rec.cur = Pt(-8, 4) /\ last.rec.destination = Rect(16, 12, 4, 4)
  /\ last.rec.vectors[1] = Pt(0, 4)
  /\ last.rec.vectors[Len(last.rec.vectors)] = Pt(16, 12)

\* C23: every point returned by path(start, end, options) has a defined
\* x >= 0 and y >= 0, for every start and end, negative coordinates and
\* start = end included.
C23_PathPointsNonNegative ==
  Returned("path") =>
    \A k \in DOMAIN last.rec.vectors :
      /\ last.rec.vectors[k].x # NaN /\ last.rec.vectors[k].x >= 0
      /\ last.rec.vectors[k].y # NaN /\ last.rec.vectors[k].y >= 0

\* C24: with useTimestamps = true the first timestamp is the time of the call,
\* and every later timestamp is the previous one plus a delta that is not
\* negative, for every moveSpeed.
C24_TimestampsNonDecreasing ==
  (Returned("path") /\ last.rec.options.useTimestamps) =>
    LET re == last.rec.vectors
    IN /\ re[1].timestamp = DateNow
       /\ \A k \in 2..Len(re) :
            /\ re[k].timestamp # NaN /\ re[k - 1].timestamp # NaN
            /\ re[k].timestamp - re[k - 1].timestamp >= 0

\* C25: generateBezierAnchors(a, b, spread) returns two points ordered by x,
\* anchor1.x <= anchor2.x, whatever the order they were drawn in and whether
\* or not a.x > b.x.
C25_AnchorsOrderedByX ==
  Returned("generateBezierAnchors") =>
    LET anchors == last.rec.vectors
    IN /\ Len(anchors) = 2
       /\ anchors[1].x # NaN /\ anchors[2].x # NaN
       /\ anchors[1].x <= anchors[2].x

\* C26: the random point of a rectangle lies within the rectangle for every
\* paddingPercentage, and with paddingPercentage = 100 it is the centre of the
\* rectangle.
C26_BoxPointInsideBox ==
  Returned("getRandomBoxPoint") =>
    LET b == last.rec.box
        d == last.rec.destination
    IN /\ b.x <= d.x /\ d.x <= b.x + b.width
       /\ b.y <= d.y /\ d.y <= b.y + b.height
       /\ last.rec.options.paddingPercentage = 100 =>
            /\ 2 * d.x = 2 * b.x + b.width
            /\ 2 * d.y = 2 * b.y + b.height

\* C26 witness: with paddingPercentage = 100 the point drawn in the target
\* rectangle is its centre
C26_CentreAtFullPadding ==
  /\ Returned("getRandomBoxPoint")
  /\ last.rec.box = TargetBox
  /\ last.rec.options.paddingPercentage = 100
  /\ last.rec.destination = Pt(301, 401)

\* the await the client's call is suspended on after the step, "returned" or
\* "threw" when the step ended the call
PcAfter ==
  IF last'.who = Client /\ last'.ev \in {"return", "throw"}
  THEN last'.rec.pc ELSE call'[Client].pc

\* the iteration of go the client's call is in after the step
IterationAfter ==
  IF last'.who = Client /\ last'.ev \in {"return", "throw"}
  THEN last'.rec.iteration ELSE call'[Client].iteration

\* C27: in every attempt of move() the steps occur in the order resolve the
\* target, scroll it into view, read the box and aim, dispatch the points,
\* re-read the box and verify; a point is dispatched only after the resolve and
\* the scroll of the same attempt, and a retry starts from resolving the target
\* with the iteration one higher.
C27_AttemptStepsInOrder ==
  [][LET pc == call[Client].pc
         it == call[Client].iteration
     IN /\ pc = "idle" =>
             /\ PcAfter \in {"idle", "getElement", "threw"}
             /\ PcAfter = "getElement" => IterationAfter = 0
        /\ pc = "getElement" => PcAfter \in {"getElement", "scroll", "threw"}
        /\ pc = "scroll" => PcAfter \in {"scroll", "getBox", "threw"}
        /\ pc = "getBox" => PcAfter \in {"getBox", "send", "threw"}
        /\ pc = "send" => PcAfter \in {"send", "newBox"}
        /\ pc = "newBox" =>
             /\ PcAfter \in {"newBox", "getElement", "moveDelay", "threw"}
             /\ PcAfter = "getElement" => IterationAfter = it + 1
        /\ pc = "moveDelay" => PcAfter \in {"moveDelay", "returned"}
        /\ pc # "newBox" => IterationAfter \in {it, 0}
        /\ (location' # location /\ last'.who = Client) => pc = "send"
    ]_vars

\* C27 witness: the second attempt of a move has resolved the target again,
\* scrolled, read the box, and has dispatched the last point of its trajectory
C27_SecondAttemptDispatched ==
  /\ call[Client].op = "move" /\ call[Client].pc = "newBox"
  /\ call[Client].iteration = 1 /\ call[Client].tries = 2
  /\ call[Client].scrolled /\ call[Client].arrived
  /\ last.who = Client /\ last.ev = "moved"

\* C28 (as stated): with every driver call answered, a move() call finishes,
\* by returning or by throwing, after at most maxTries attempts, also when the
\* target has moved away at every verification.
C28_AttemptsBoundedByMaxTries ==
  /\ call[Client].op = "move" => call[Client].tries <= call[Client].maxTries
  /\ (last.who = Client /\ last.ev \in {"return", "throw"} /\ last.rec.op = "move")
       => last.rec.tries <= last.rec.maxTries

\* C28, termination alone: with every driver call answered, a move() call that
\* is in progress finishes
C28_EveryMoveFinishes ==
  (call[Client].op = "move") ~> (call[Client].op # "move")

\* C28, the bound the code keeps: a move() call makes at most maxTries + 1
\* attempts
C28_AttemptsBoundedByMaxTriesPlusOne ==
  /\ call[Client].op = "move" => call[Client].tries <= call[Client].maxTries + 1
  /\ (last.who = Client /\ last.ev \in {"return", "throw"} /\ last.rec.op = "move")
       => last.rec.tries <= last.rec.maxTries + 1

\* C29: when the overshoot applies, the corrective trajectory begins only when
\* the overshoot trajectory has ended, no point of the overshoot trajectory
\* follows a point of the corrective one, and the corrective trajectory is
\* synthesized from the location the overshoot trajectory has reached to the
\* true destination with spreadOverride 10.
C29_CorrectiveAfterOvershoot ==
  [][LET r == call[Client]
         q == call'[Client]
     IN /\ (r.stage = "overshoot" /\ q.stage = "correct") =>
             /\ r.pc = "send" /\ q.pc = "send"
             /\ r.vectors = <<>> \/ ~connected
             /\ location' \in {r.cur, location}
             /\ q.iteration = r.iteration /\ q.trajs = 2
             /\ q.cur = location'
             /\ q.vectors # <<>>
             /\ q.vectors[Len(q.vectors)] = r.destination
             /\ q.destination = r.destination
             /\ q.spreadOverride = OVERSHOOT_SPREAD
        /\ (r.stage = "overshoot" /\ q.stage = "overshoot") =>
             q.spreadOverride = undefined
        /\ (r.stage = "correct" /\ q.op # "none" /\ q.iteration = r.iteration) =>
             /\ q.stage = "correct"
             /\ q.spreadOverride = OVERSHOOT_SPREAD
        /\ q.stage = "correct" => r.stage \in {"overshoot", "correct"}
    ]_vars

\* C29 witness: the overshoot trajectory has ended beside the destination and
\* the first point of the corrective trajectory, the location reached, has
\* been dispatched
C29_CorrectiveUnderWay ==
  /\ call[Client].op = "move" /\ call[Client].stage = "correct"
  /\ call[Client].pc = "send" /\ call[Client].trajs = 2
  /\ call[Client].spreadOverride = OVERSHOOT_SPREAD
  /\ last.who = Client /\ last.ev = "moved" /\ last.more
  /\ location = last.from /\ location # call[Client].destination

\* C30: in click(selector) every point of the move is dispatched before
\* mousePressed, mousePressed before mouseReleased, and each of the two events
\* carries the location the cursor holds when it is sent; click() without a
\* selector dispatches no pointer move and presses at the current location.
C30_ClickAfterMoveAtLocation ==
  [][LET r == call[Client]
         q == call'[Client]
         ends == last'.who = Client /\ last'.ev \in {"return", "throw"}
     IN /\ (r.pc # "down" /\ q.pc = "down") =>
             /\ q.pressedAt = location /\ location' = location
             /\ r.pc \in {"idle", "newBox", "moveDelay"}
             /\ r.vectors = <<>>
             /\ r.pc = "idle" => (~q.hasSelector /\ q.trajs = 0)
             /\ r.pc = "newBox" => (r.trajs >= 1 /\ intersectsElement(location, q.newBoundingBox))
        /\ (r.pc # "up" /\ q.pc = "up") =>
             /\ r.pc = "down" /\ last'.ev = "pressed"
             /\ q.releasedAt = location /\ location' = location
             /\ q.pressedAt = r.pressedAt
        /\ last'.ev = "released" => (r.pc = "up" /\ last'.who = Client)
        /\ (r.pc \in {"down", "up", "clickDelay"} /\ ~ends) =>
             /\ q.pc \in {"down", "up", "clickDelay"}
             /\ q.trajs = r.trajs
        /\ (r.op = "click" /\ ~r.hasSelector /\ last'.who = Client) =>
             location' = location
    ]_vars

\* C30 witness: click(selector) has moved the cursor into the element, and
\* mousePressed and mouseReleased were accepted with the location reached
C30_ClickedOnElement ==
  /\ call[Client].op = "click" /\ call[Client].hasSelector
  /\ ~call[Client].thenClick
  /\ call[Client].pc = "clickDelay"
  /\ last.who = Client /\ last.ev = "released"
  /\ call[Client].pressed # NoOptions /\ call[Client].released # NoOptions
  /\ call[Client].trajs >= 1
  /\ call[Client].pressedAt = location /\ call[Client].releasedAt = location
  /\ location # origin

\* a click on an element, made in one call or in two, whose move has been
\* verified and whose button events are not both sent yet
ClickingOnElement ==
  /\ call[Client].hasSelector
  /\ call[Client].op = "click" \/ call[Client].thenClick
  /\ call[Client].pc \in {"moveDelay", "down", "up"}

\* between the verification of the move and the button events the driver is
\* handed no roaming point, and mousePressed carries the location the move
\* has reached
ButtonEventsFollowMove ==
  /\ ~(last.who = Roam /\ last.ev \in {"start", "moved", "failed"})
  /\ call[Client].pc \in {"down", "up"} =>
       call[Client].pressedAt = call[Client].reached

\* C21 (as stated): click(selector) and move(selector) followed by click(),
\* under the same options, send the driver the same pointer-move and button
\* events, the button events at the location the move reached, also when a
\* roaming loop runs on the cursor.
C21_ClickOnIsMoveThenClick ==
  ClickingOnElement => ButtonEventsFollowMove

\* C21 amended: the two send the same events, the button events at the
\* location the move reached, when no roaming loop runs or the options give no
\* moveDelay of a millisecond or more; with such a moveDelay move(selector)
\* lets roaming resume before click() is called, while click(selector) holds
\* roaming off until after the button events.
C21_ClickOnIsMoveThenClickWithoutDelay ==
  (/\ ClickingOnElement
   /\ call[Client].thenClick => (call[Client].moveDelay < 1 \/ roam.pc = "off"))
    => ButtonEventsFollowMove

\* C21 witness: with a roaming loop running, move(selector) without moveDelay
\* followed by click() has pressed the button at the location the move reached
C21_PressedWhereMoveArrived ==
  /\ call[Client].thenClick /\ call[Client].moveDelay = 0
  /\ call[Client].op = "click" /\ call[Client].pc = "up"
  /\ roam.pc # "off" /\ call[Client].clickWasRandom
  /\ last.who = Client /\ last.ev = "pressed"
  /\ call[Client].pressedAt = call[Client].reached
  /\ call[Client].reached = location /\ location # origin

\* C31: during click(selector) the moving flag is set at every moment from the
\* entry of click to its final restore, the inner move leaving it set, and
\* between the last point of the move and the button events the roaming loop
\* hands the driver no point.
C31_FlagHeldThroughClick ==
  LET r == call[Client]
  IN (r.op = "click" /\ r.hasSelector /\ ~r.thenClick) =>
       /\ moving
       /\ ~r.wasRandom
       /\ r.pc \in {"newBox", "down", "up"} =>
            /\ roam.pc # "send"
            /\ ~(last.who = Roam /\ last.ev \in {"start", "moved", "failed"})

\* C31 witness: in a click(selector) that has verified its move and sent
\* mousePressed, the roaming loop has woken, found the flag set and gone back
\* to its delay without a point
C31_RoamingYieldsBeforePress ==
  /\ call[Client].op = "click" /\ call[Client].hasSelector
  /\ ~call[Client].thenClick /\ call[Client].clickWasRandom
  /\ call[Client].pc = "down" /\ call[Client].trajs >= 1
  /\ last.who = Roam /\ last.ev = "idle"
  /\ roam.pc = "delay" /\ moving

\* C32: when the move inside click(selector) throws, for a target not found or
\* for the retry cap passed, click throws the same error at that step and has
\* dispatched neither mousePressed nor mouseReleased.
C32_MoveErrorLeavesClick ==
  [][LET r == call[Client]
         q == call'[Client]
         threw == last'.who = Client /\ last'.ev = "throw"
     IN (/\ r.op = "click" /\ r.hasSelector
         /\ r.pc \in {"getElement", "scroll", "getBox", "send", "newBox"}
         /\ last'.who = Client) =>
          /\ q.pc \notin {"up", "clickDelay"}
          /\ q.pc = "down" =>
               (r.pc = "newBox" /\ intersectsElement(location, q.newBoundingBox))
          /\ (r.pc = "newBox" /\ connected /\ q.pc = "idle") =>
               (threw /\ last'.rec.err = "maxtries"
                  /\ ~intersectsElement(location, last'.rec.newBoundingBox))
          /\ q.pc = "idle" => threw
          /\ threw =>
               /\ last'.rec.pressed = NoOptions
               /\ last'.rec.released = NoOptions
               /\ last'.rec.err \in
                    (CASE r.pc = "getElement" -> {"notfound", "typeerror", "driver"}
                       [] r.pc = "newBox" -> {"maxtries", "driver"}
                       [] OTHER -> {"driver"})
    ]_vars

\* C32 witness: click('#missing') has thrown the target-not-found error of its
\* move, no button event dispatched
C32_ClickThrewNotFound ==
  /\ last.who = Client /\ last.ev = "throw"
  /\ last.rec.op = "click" /\ last.rec.hasSelector
  /\ last.rec.selector = "css" /\ last.rec.err = "notfound"
  /\ last.rec.pressed = NoOptions /\ last.rec.released = NoOptions
  /\ last.rec.trajs = 0

\* C33: a rejected mousePressed or mouseReleased dispatch inside click is
\* caught and click does not throw; mouseReleased is sent only after the
\* mousePressed of the same call was accepted; and the click that follows such
\* a failure still returns with the moving flag at its value at entry.
C33_ButtonFailureCaught ==
  [][LET r == call[Client]
         q == call'[Client]
     IN (r.op = "click" /\ last'.who = Client) =>
          /\ r.pc \in {"down", "up"} =>
               /\ q.pc \in {"up", "clickDelay"}
               /\ last'.ev \in {"pressed", "unpressed", "released", "unreleased"}
               /\ q.pc = "up" =>
                    (r.pc = "down" /\ last'.ev = "pressed" /\ q.pressed # NoOptions)
               /\ last'.ev \in {"released", "unreleased"} =>
                    (r.pc = "up" /\ r.pressed # NoOptions)
               /\ last'.ev = "unpressed" =>
                    (q.pc = "clickDelay" /\ q.released = NoOptions)
          /\ r.pc = "clickDelay" =>
               /\ last'.ev = "return"
               /\ moving' = last'.rec.entry
    ]_vars

\* C33 witness: a click whose mousePressed was rejected has returned, without
\* mouseReleased, the flag clear as it was at entry
C33_ReturnedAfterFailedPress ==
  /\ last.who = Client /\ last.ev = "return" /\ last.rec.op = "click"
  /\ last.rec.pressed = NoOptions /\ last.rec.released = NoOptions
  /\ ~last.rec.entry /\ ~moving

\* the strategies of a scrollIntoView with the locals r are in the order of the
\* chain: the native scroll first exactly when the clamped scrollSpeed is 100
\* and inViewportMargin <= 0, else the wheel scroll first; the wheel scroll
\* after a native one; the page-level scrollIntoView only after the wheel scroll
StrategiesInOrder(r) ==
  LET native == clamp(r.scrollSpeed, 1, 100) = 100 /\ r.inViewportMargin <= 0
  IN /\ r.via \in {<<>>, <<"native">>, <<"native", "wheel">>, <<"wheel">>,
                   <<"native", "wheel", "js">>, <<"wheel", "js">>}
     /\ r.via # <<>> => (r.via[1] = "native" <=> native)
     /\ r.pc = "native" => r.via = <<"native">>
     /\ r.pc \in {"wheel", "scrollDelay"} => r.via[Len(r.via)] = "wheel"
     /\ r.pc = "jsScroll" => r.via[Len(r.via)] = "js"

\* C34: a scrollIntoView that has to scroll requests the native scroll only
\* with scrollSpeed 100 and inViewportMargin <= 0; otherwise, and after a
\* failed native scroll, it calls the wheel scroll; the page-level
\* scrollIntoView is invoked only at the failure of a wheel event, never
\* before the wheel scroll.
C34_ScrollStrategyChain ==
  /\ call[Client].op = "scrollIntoView" =>
       /\ StrategiesInOrder(call[Client])
       /\ call[Client].pc # "measure" => call[Client].via # <<>>
       /\ call[Client].pc = "jsScroll" =>
            (last.who = Client => last.ev = "wheelFailed")
  /\ (last.who = Client /\ last.ev \in {"return", "throw"}
        /\ last.rec.op = "scrollIntoView") =>
       /\ StrategiesInOrder(last.rec)
       /\ (last.rec.wheels > 0 \/ last.rec.sum # origin) => "wheel" \in
            {last.rec.via[k] : k \in DOMAIN last.rec.via}

\* C34 witness: with scrollSpeed 100 and no margin the native scroll was
\* requested and failed, and the wheel scroll has brought the element into view
C34_WheelAfterFailedNative ==
  /\ last.who = Client /\ last.ev = "return"
  /\ last.rec.op = "scrollIntoView"
  /\ last.rec.scrollSpeed = 100 /\ last.rec.inViewportMargin = 0
  /\ last.rec.via = <<"native", "wheel">>
  /\ last.rec.wheels = 1 /\ last.rec.sum = last.rec.delta

\* the wheel scroll of scrollIntoView with the locals r has been called with
\* the delta computed for its target
ScrollsManually(r) ==
  /\ r.op = "scrollIntoView"
  /\ r.via # <<>> /\ r.via[Len(r.via)] = "wheel"

\* the delta of r is the least one that brings its target box, when the box
\* is no larger than the viewport, into the viewport: 0 on an axis that holds
\* the box, else the distance of the edge that is out to the viewport's edge
MinimalDelta(r) ==
  LET t == targetBox(r.box, r.inViewportMargin, r.scrollPosition, Document)
      vw == Document.viewportWidth
      vh == Document.viewportHeight
      fits == t.right - t.left <= vw /\ t.bottom - t.top <= vh
      top == t.top - r.delta.y
      bottom == t.bottom - r.delta.y
      left == t.left - r.delta.x
      right == t.right - r.delta.x
  IN fits =>
       /\ (0 <= t.top /\ t.bottom <= vh) <=> r.delta.y = 0
       /\ (0 <= t.left /\ t.right <= vw) <=> r.delta.x = 0
       /\ 0 <= top /\ bottom <= vh /\ 0 <= left /\ right <= vw
       /\ r.delta.y < 0 => top = 0
       /\ r.delta.y > 0 => bottom = vh
       /\ r.delta.x < 0 => left = 0
       /\ r.delta.x > 0 => right = vw
       /\ 0 <= r.scrollPosition.x + r.delta.x
       /\ r.scrollPosition.x + r.delta.x + vw <= Document.docWidth
       /\ 0 <= r.scrollPosition.y + r.delta.y
       /\ r.scrollPosition.y + r.delta.y + vh <= Document.docHeight

\* C35: for a target box, margin included, that is no larger than the
\* viewport, the delta scrollIntoView computes is minimal: 0 on an axis on
\* which the box is contained, and such that the box, the page scrolled by the
\* delta, lies inside the viewport on both axes.
C35_DeltaIsMinimal ==
  /\ ScrollsManually(call[Client]) /\ call[Client].pc # "jsScroll"
       => MinimalDelta(call[Client])
  /\ (last.who = Client /\ last.ev \in {"return", "throw"} /\ ScrollsManually(last.rec))
       => MinimalDelta(last.rec)

\* C35 witness: an element over the top left corner of the viewport, the page
\* scrolled to (400, 600), is brought into view with a margin of 10 by a scroll
\* of 40 left and 30 up
C35_ScrolledUpAndLeft ==
  /\ last.who = Client /\ last.ev = "return"
  /\ last.rec.op = "scrollIntoView" /\ last.rec.via = <<"wheel">>
  /\ last.rec.box = Rect(-30, -20, 50, 50) /\ last.rec.inViewportMargin = 10
  /\ last.rec.scrollPosition = Pt(400, 600)
  /\ last.rec.delta = Pt(-40, -30) /\ last.rec.sum = Pt(-40, -30)

\* C36: with scrollSpeed = 100 a scroll(delta) with a nonzero delta is done in
\* exactly one dispatched wheel event, which carries the whole delta on both
\* axes.
C36_FastestScrollIsOneWheel ==
  LET r == call[Client]
      done == last.rec
  IN /\ (/\ last.who = Client /\ last.ev = "call"
         /\ r.op = "scroll" /\ r.scrollSpeed = 100 /\ r.delta # Pt(0, 0))
          => /\ r.pc = "wheel"
             /\ scrollPlan(r.delta, r.scrollSpeed).numSteps = 1
             /\ wheelDelta(scrollPlan(r.delta, r.scrollSpeed), 0) = r.delta
     /\ (/\ last.who = Client /\ last.ev = "wheel"
         /\ r.op = "scroll" /\ r.scrollSpeed = 100 /\ r.delta # Pt(0, 0))
          => /\ last.pt = r.delta
             /\ r.wheels = 1 /\ r.pc = "scrollDelay"
     /\ (/\ last.who = Client /\ last.ev = "return"
         /\ done.op = "scroll" /\ done.scrollSpeed = 100 /\ done.delta # Pt(0, 0))
          => done.wheels = 1 /\ done.sum = done.delta

\* C36 witness: scroll({x: 30, y: -200}) with scrollSpeed 100 has returned
\* after one wheel event
C36_ScrolledInOneWheel ==
  /\ last.who = Client /\ last.ev = "return"
  /\ last.rec.op = "scroll" /\ last.rec.scrollSpeed = 100
  /\ last.rec.delta = Pt(30, -200)
  /\ last.rec.wheels = 1 /\ last.rec.sum = Pt(30, -200)

\* the finished scrollIntoView with the locals r has scrolled the page: the
\* native or the page-level scroll has answered, or a wheel event was dispatched
HasScrolled(r) ==
  /\ r.op = "scrollIntoView" /\ r.via # <<>>
  /\ r.via[Len(r.via)] \in {"native", "js"} \/ r.wheels > 0

\* C37: whenever scrollIntoView scrolls, scrollDelay is waited after the scroll
\* and before scrollIntoView returns, whichever of the native, the wheel and
\* the page-level scroll has scrolled: a return after a scroll is the end of
\* the delay.
C37_DelayAfterEveryScroll ==
  [][(/\ last'.who = Client /\ last'.ev = "return" /\ HasScrolled(last'.rec))
       => call[Client].pc = "scrollDelay"]_vars

\* C38: the location getLocation returns is at every moment the start position
\* or a point whose mouseMoved dispatch has been answered without error: the
\* location changes only in the step in which the driver answers the dispatch
\* of the point a moveMouse has submitted, and to that point; no move, aborted
\* roaming trajectory, click, scroll, toggle or disconnect writes it otherwise.
C38_LocationIsDispatched ==
  /\ location = origin
  /\ [][location' # location =>
          \E w \in Procs :
            /\ queue # <<>> /\ Head(queue) = w
            /\ connected
            /\ last'.who = w /\ last'.ev = "moved"
            /\ IF w = Roam
               THEN roam.pc = "send" /\ location' = roam.cur
               ELSE call[w].pc = "send" /\ location' = call[w].cur]_vars

\* C38 witness: the roaming trajectory was aborted by a directed call after
\* its first point, and the location is that point
C38_AbortedOnDispatchedPoint ==
  /\ last.who = Roam /\ last.ev = "moved" /\ ~last.more
  /\ roam.pc = "delay" /\ roam.vectors # <<>>
  /\ moving
  /\ location = last.pt /\ location # origin

\* the destination d lies on the left or on the top edge of the box b
OnLeftOrTopEdge(d, b) == d.x = b.x \/ d.y = b.y

\* the box the second getElementBox of the attempt has answered in the step
NewBoxAfter ==
  IF last'.who = Client /\ last'.ev \in {"return", "throw"}
  THEN last'.rec.newBoundingBox ELSE call'[Client].newBoundingBox

\* the step ends the attempt as failed: go(iteration + 1) has started the next
\* attempt, or has thrown the error of the cap when the attempt was the last
AttemptFailed ==
  LET r == call[Client]
  IN /\ last'.who = Client
     /\ IF r.iteration + 1 > r.maxTries
        THEN /\ last'.ev = "throw" /\ last'.rec.err = "maxtries"
             /\ call'[Client].pc = "idle"
        ELSE /\ last'.ev = "retry"
             /\ call'[Client].pc = "getElement"
             /\ call'[Client].iteration = r.iteration + 1

C40_OneRoamingLoop ==
  /\ [](/\ roam.loops <= 1
        /\ roam.loops = 1 <=> roam.pc \in {"point", "send", "delay"})
  /\ [][/\ roam' # roam => last'.who = Roam
        /\ (last'.who = Roam /\ last'.ev \in {"again", "idle"})
             => /\ roam.pc = "delay"
                /\ \A i \in 1..Len(queue) : queue[i] # Roam
                /\ roam'.loops = roam.loops
        /\ (roam'.pc = "point" /\ roam.pc # "point") => roam.pc = "delay"]_vars

\* C40 witness: with roaming toggled off and no directed call running, the one
\* loop has re-scheduled itself after its delay
C40_RescheduledWhileOff ==
  /\ last.who = Roam /\ last.ev = "idle"
  /\ moving /\ \A c \in Callers : call[c].pc = "idle"
  /\ roam.pc = "delay" /\ roam.loops = 1
  /\ location # origin

====
